---- MODULE Spec2Model ----
(***************************************************************************)
(* A model of the tokentracker library: the provider registry, the three   *)
(* built-in providers (OpenAI, Claude, Gemini), the pricing table, the      *)
(* process-wide token cache and the tracker that orchestrates them.         *)
(*                                                                          *)
(* Conventions                                                              *)
(*  - Go strings are TLA+ strings, one character per byte.  A byte that     *)
(*    continues a multi-byte UTF-8 rune is written "~", so "e~" is the two  *)
(*    bytes of one rune; every other character is an ASCII byte.            *)
(*  - A Go error is a record [Type, Message, Cause]; nil is NoErr.          *)
(*  - float64 prices are fixed-point integers in nano-USD per token, so a   *)
(*    cost is tokens * price exactly; float rounding is not modelled.       *)
(*  - JSON numbers (float64 after decoding) are kept in halves, so that the *)
(*    truncating conversion int(f) is a real conversion.                    *)
(*  - `last` records the most recent operation: its arguments, the calls it *)
(*    made to its collaborators, and what it returned.                      *)
(***************************************************************************)
EXTENDS Integers, Sequences, FiniteSets, TLC

VARIABLES
    providers,  \* ProviderRegistry.providers : name -> Provider
    config,     \* Config.Providers : provider name -> (model -> ModelPricing)
    cache,      \* globalTokenCache.cache : key -> count
    mu,         \* ProviderRegistry.mu : the RWMutex guarding providers
    registrar,  \* goroutine id -> position of a goroutine calling Register
    reader,     \* goroutine id -> position and result of a reading goroutine
    updater,    \* the goroutine inside Provider.UpdatePricing, if any
    cacheMu,    \* globalTokenCache.mu : the RWMutex guarding cache
    cleaner,    \* the goroutine inside CleanupCache, if any
    tracking,   \* goroutine id -> position of a goroutine inside TrackUsage
    auto,       \* Config.AutoUpdatePricing, pricingUpdateTimer and the timers
    sched,      \* Config.mu, ClaudeProvider.mu and the goroutines taking locks
    last        \* the most recent operation and its result

vars ==
    <<providers, config, cache, mu, registrar, reader, updater, cacheMu,
      cleaner, tracking, auto, sched, last>>

\* The goroutines that run beside the caller: inside UpdatePricing, inside
\* CleanupCache, inside TrackUsage, and the pricing-update timers
background == <<updater, cacheMu, cleaner, tracking, auto, sched>>

\* The state of the goroutines and of the locks
conc == <<mu, registrar, reader, background>>

----------------------------------------------------------------------------
(* Errors (errors.go)                                                       *)

ErrInvalidModel == "invalid_model"
ErrInvalidParams == "invalid_params"
ErrProviderNotFound == "provider_not_found"
ErrTokenizationFailed == "tokenization_failed"
ErrPricingNotFound == "pricing_not_found"
ErrPricingUpdateFailed == "pricing_update_failed"

\* The nil error.  The cause of an error is an error, nil when it wraps none
NoErr == [Type |-> "nil", Message |-> "", Cause |-> [Type |-> "nil"]]

NewError(errType, message, cause) ==
    [Type |-> errType, Message |-> message, Cause |-> cause]

----------------------------------------------------------------------------
(* Value types (models.go)                                                  *)

TokenCount(in, resp, total) ==
    [InputTokens |-> in, ResponseTokens |-> resp, TotalTokens |-> total]

ZeroTokenCount == TokenCount(0, 0, 0)

Price(inCost, outCost, total, cur) ==
    [InputCost |-> inCost, OutputCost |-> outCost, TotalCost |-> total,
     Currency |-> cur]

ZeroPrice == Price(0, 0, 0, "")

ModelPricing(inPrice, outPrice, cur) ==
    [InputPricePerToken |-> inPrice, OutputPricePerToken |-> outPrice,
     Currency |-> cur]

ZeroModelPricing == ModelPricing(0, 0, "")

\* A *string is [present, s]; the nil pointer has present = FALSE.
NilText == [present |-> FALSE, s |-> ""]
StringPtr(str) == [present |-> TRUE, s |-> str]

\* A *ToolChoice with Function nil; the nil pointer has present = FALSE.
NilToolChoice == [present |-> FALSE, Type |-> ""]
ToolChoicePtr(type) == [present |-> TRUE, Type |-> type]

\* Message.Content is a tagged union: a plain string or a list of parts.
StringContent(str) == [tag |-> "string", text |-> str, parts |-> <<>>]
PartsContent(ps) == [tag |-> "parts", text |-> "", parts |-> ps]
ContentPart(type, text) == [Type |-> type, Text |-> text]
Message(role, content) == [Role |-> role, Content |-> content]

TokenCountParams(model, text, messages, tools, toolChoice, crt) ==
    [Model |-> model, Text |-> text, Messages |-> messages, Tools |-> tools,
     ToolChoice |-> toolChoice, CountResponseTokens |-> crt]

----------------------------------------------------------------------------
(* String helpers                                                           *)

\* strings.Contains
Contains(str, sub) ==
    \E i \in 1..(Len(str) - Len(sub) + 1) : SubSeq(str, i, i + Len(sub) - 1) = sub

\* utf8.RuneCountInString on valid UTF-8: the bytes that start a rune
RuneCountInString(str) ==
    Cardinality({i \in 1..Len(str) : SubSeq(str, i, i) # "~"})

\* int(f) for a float64 held in halves: truncation toward zero
IntOfFloat(h) == IF h >= 0 THEN h \div 2 ELSE -((-h) \div 2)

----------------------------------------------------------------------------
(* The token cache and the text helpers (utils)                             *)

\* hashString: long strings are abbreviated to prefix, suffix and length
hashString(str) ==
    IF Len(str) > 100
    THEN SubSeq(str, 1, 50) \o "..." \o SubSeq(str, Len(str) - 49, Len(str))
         \o ":" \o ToString(Len(str))
    ELSE str

\* The cache key fmt.Sprintf("%s:%s:%s", provider, model, hashString(text))
CacheKey(provider, model, text) ==
    provider \o ":" \o model \o ":" \o hashString(text)

\* GetCachedTokenCount: (count, exists) on a cache c
GetCachedTokenCount(c, provider, model, text) ==
    LET key == CacheKey(provider, model, text)
    IN  IF key \in DOMAIN c
        THEN [count |-> c[key], exists |-> TRUE]
        ELSE [count |-> 0, exists |-> FALSE]

\* SetCachedTokenCount: the cache after the write
SetCachedTokenCount(c, provider, model, text, count) ==
    LET key == CacheKey(provider, model, text)
    IN  [k \in (DOMAIN c) \cup {key} |-> IF k = key THEN count ELSE c[k]]

\* Mutant of CleanupCache: an over-full cache is trimmed to maxSize entries
CleanupCacheTrim(c, maxSize) ==
    IF Cardinality(DOMAIN c) <= maxSize THEN c
    ELSE LET keep == CHOOSE K \in SUBSET DOMAIN c : Cardinality(K) = maxSize
         IN  [k \in keep |-> c[k]]

\* CleanupCache: the cache after the call
CleanupCache(c, maxSize) ==
    IF Cardinality(DOMAIN c) <= maxSize THEN c ELSE <<>>

RECURSIVE PartsText(_)
\* the inner loop of ExtractTextFromMessages over []ContentPart
PartsText(parts) ==
    IF parts = <<>> THEN ""
    ELSE (IF Head(parts).Type = "text" THEN Head(parts).Text \o "\n" ELSE "")
         \o PartsText(Tail(parts))

RECURSIVE ExtractTextFromMessages(_)
ExtractTextFromMessages(messages) ==
    IF messages = <<>> THEN ""
    ELSE LET content == Head(messages).Content
         IN  (IF content.tag = "string" THEN content.text \o "\n"
              ELSE PartsText(content.parts))
             \o ExtractTextFromMessages(Tail(messages))

\* Mutant of EstimateResponseTokens: every model gets a quarter of the input
EstimateResponseTokensQuarter(model, inputTokens) == inputTokens \div 4

\* EstimateResponseTokens: the shared multiplier policy (Go's / on ints)
EstimateResponseTokens(model, inputTokens) ==
    IF Contains(model, "gpt-4") THEN inputTokens
    ELSE IF Contains(model, "gpt-3.5") THEN inputTokens \div 2
    ELSE IF Contains(model, "claude")
         THEN IF Contains(model, "opus") THEN inputTokens * 2
              ELSE IF Contains(model, "sonnet") THEN inputTokens
              ELSE inputTokens \div 2
    ELSE IF Contains(model, "gemini")
         THEN IF Contains(model, "ultra") THEN (inputTokens * 3) \div 2
              ELSE inputTokens \div 2
    ELSE inputTokens \div 2

----------------------------------------------------------------------------
(* encoding/json.Marshal of the values the providers marshal                *)

RECURSIVE JoinJSON(_)
JoinJSON(items) ==
    IF items = <<>> THEN ""
    ELSE IF Len(items) = 1 THEN Head(items)
    ELSE Head(items) \o "," \o JoinJSON(Tail(items))

\* A Tool is its Type (Function is nil and omitted): {"type":"function"}
ToolJSON(tool) == "{\"type\":\"" \o tool \o "\"}"

ToolsJSON(tools) ==
    "[" \o JoinJSON([i \in 1..Len(tools) |-> ToolJSON(tools[i])]) \o "]"

\* ToolChoice{Type, Function nil}: both fields are omitempty
ToolChoiceJSON(tc) ==
    IF tc.Type = "" THEN "{}" ELSE "{\"type\":\"" \o tc.Type \o "\"}"

PartJSON(part) ==
    "{\"type\":\"" \o part.Type \o "\""
    \o (IF part.Text = "" THEN "" ELSE ",\"text\":\"" \o part.Text \o "\"")
    \o "}"

ContentJSON(content) ==
    IF content.tag = "string" THEN "\"" \o content.text \o "\""
    ELSE "[" \o JoinJSON([i \in 1..Len(content.parts) |->
                             PartJSON(content.parts[i])]) \o "]"

MessageJSON(m) ==
    "{\"role\":\"" \o m.Role \o "\",\"content\":" \o ContentJSON(m.Content) \o "}"

MessagesJSON(messages) ==
    "[" \o JoinJSON([i \in 1..Len(messages) |-> MessageJSON(messages[i])]) \o "]"

----------------------------------------------------------------------------
(* Providers.  A Provider value is [kind, name, supportedModels,            *)
(* tokenCount, price, sdkClient, updateErr]; kind selects the               *)
(* implementation of the interface.  sdkClient is the client the provider   *)
(* stores; tokenCount, price and updateErr are what a test double returns.  *)

\* The nil interface{} a provider holds before SetSDKClient
NilClient == "nil"

OpenAIProvider ==
    [kind |-> "openai", name |-> "openai",
     supportedModels |-> {"gpt-3.5-turbo", "gpt-3.5-turbo-16k", "gpt-4",
                          "gpt-4-turbo", "gpt-4-32k", "gpt-4o",
                          "text-embedding-ada"},
     tokenCount |-> ZeroTokenCount, price |-> ZeroPrice,
     sdkClient |-> NilClient, updateErr |-> NoErr]

\* Mutant of ClaudeProvider: its allow-list also claims gpt-4
ClaudeProviderOverlapping ==
    [kind |-> "claude", name |-> "anthropic",
     supportedModels |-> {"claude-3-haiku", "claude-3-sonnet", "claude-3-opus",
                          "gpt-4"},
     tokenCount |-> ZeroTokenCount, price |-> ZeroPrice,
     sdkClient |-> NilClient, updateErr |-> NoErr]

ClaudeProvider ==
    [kind |-> "claude", name |-> "anthropic",
     supportedModels |-> {"claude-3-haiku", "claude-3-sonnet", "claude-3-opus"},
     tokenCount |-> ZeroTokenCount, price |-> ZeroPrice,
     sdkClient |-> NilClient, updateErr |-> NoErr]

GeminiProvider ==
    [kind |-> "gemini", name |-> "gemini",
     supportedModels |-> {"gemini-pro", "gemini-ultra"},
     tokenCount |-> ZeroTokenCount, price |-> ZeroPrice,
     sdkClient |-> NilClient, updateErr |-> NoErr]

\* The test double of the tracker tests: one model, fixed results
MockProvider(name, supportedModel, tokenCount, price) ==
    [kind |-> "mock", name |-> name, supportedModels |-> {supportedModel},
     tokenCount |-> tokenCount, price |-> price,
     sdkClient |-> NilClient, updateErr |-> NoErr]

\* The test double of the registry tests: a name and an allow-list
MockSimpleProvider(name, supportedModels) ==
    [kind |-> "simple", name |-> name, supportedModels |-> supportedModels,
     tokenCount |-> ZeroTokenCount, price |-> ZeroPrice,
     sdkClient |-> NilClient, updateErr |-> NoErr]

BuiltinProviders == {OpenAIProvider, ClaudeProvider, GeminiProvider}

\* Provider.Name
Name(p) == p.name

\* Provider.SupportsModel
SupportsModel(p, model) == model \in p.supportedModels

\* len(encoding.Encode(text)): the BPE tokenizer is an external library; a
\* fixed stand-in of one token per started group of four bytes is used.
TiktokenLen(str) == (Len(str) + 3) \div 4

\* OpenAIProvider.countMessageTokens
OpenAICountMessageTokens(messages, tools, toolChoice) ==
    TiktokenLen(MessagesJSON(messages))
    + (IF Len(tools) > 0 THEN TiktokenLen(ToolsJSON(tools)) ELSE 0)
    + (IF toolChoice.present THEN TiktokenLen(ToolChoiceJSON(toolChoice)) ELSE 0)
    + 3

\* OpenAIProvider.CountTokens; encOK says whether tiktoken.GetEncoding
\* could load the encoding (it fetches the vocabulary on first use).
OpenAICountTokens(params, c, encOK) ==
    IF params.Model = ""
    THEN [tc |-> ZeroTokenCount, cache |-> c,
          err |-> NewError(ErrInvalidParams, "model is required", NoErr)]
    ELSE IF ~encOK
    THEN [tc |-> ZeroTokenCount, cache |-> c,
          err |-> NewError(ErrTokenizationFailed, "failed to get encoding",
                           "encoding unavailable")]
    ELSE IF ~params.Text.present /\ Len(params.Messages) = 0
    THEN [tc |-> ZeroTokenCount, cache |-> c,
          err |-> NewError(ErrInvalidParams,
                           "either text or messages must be provided", NoErr)]
    ELSE LET inputTokens ==
                 IF params.Text.present THEN TiktokenLen(params.Text.s)
                 ELSE OpenAICountMessageTokens(params.Messages, params.Tools,
                                               params.ToolChoice)
             responseTokens ==
                 IF params.CountResponseTokens
                 THEN EstimateResponseTokens(params.Model, inputTokens)
                 ELSE 0
         IN  [tc |-> TokenCount(inputTokens, responseTokens,
                                inputTokens + responseTokens),
              cache |-> c, err |-> NoErr]

\* ClaudeProvider.approximateTokenCount: [count, cache after the call]
ClaudeApproximateTokenCount(c, text) ==
    LET hit == GetCachedTokenCount(c, "anthropic", "", text)
        tokenCount == (RuneCountInString(text) * 95) \div 400 + 5
    IN  IF hit.exists THEN [count |-> hit.count, cache |-> c]
        ELSE [count |-> tokenCount,
              cache |-> SetCachedTokenCount(c, "anthropic", "", text, tokenCount)]

\* GeminiProvider.approximateTokenCount: [count, cache after the call]
GeminiApproximateTokenCount(c, text) ==
    LET hit == GetCachedTokenCount(c, "gemini", "", text)
        tokenCount == RuneCountInString(text) \div 4 + 3
    IN  IF hit.exists THEN [count |-> hit.count, cache |-> c]
        ELSE [count |-> tokenCount,
              cache |-> SetCachedTokenCount(c, "gemini", "", text, tokenCount)]

\* approximateTokenCount of the provider kind
ApproximateTokenCount(kind, c, text) ==
    IF kind = "claude" THEN ClaudeApproximateTokenCount(c, text)
    ELSE GeminiApproximateTokenCount(c, text)

\* countMessageTokens of Claude (6 tokens per message) and Gemini (4)
CountMessageTokens(kind, c, messages, tools, toolChoice) ==
    LET a1 == ApproximateTokenCount(kind, c, ExtractTextFromMessages(messages))
        perMessage == IF kind = "claude" THEN 6 ELSE 4
        a2 == IF Len(tools) > 0
              THEN ApproximateTokenCount(kind, a1.cache, ToolsJSON(tools))
              ELSE [count |-> 0, cache |-> a1.cache]
        a3 == IF toolChoice.present
              THEN ApproximateTokenCount(kind, a2.cache, ToolChoiceJSON(toolChoice))
              ELSE [count |-> 0, cache |-> a2.cache]
    IN  [count |-> a1.count + Len(messages) * perMessage + a2.count + a3.count,
         cache |-> a3.cache]

\* ClaudeProvider.estimateResponseTokens
ClaudeEstimateResponseTokens(model, inputTokens) ==
    IF Contains(model, "opus") THEN inputTokens * 2
    ELSE IF Contains(model, "sonnet") THEN (inputTokens * 3) \div 2
    ELSE IF Contains(model, "haiku") THEN inputTokens
    ELSE EstimateResponseTokens(model, inputTokens)

\* Mutant of ApproxCountTokens: a non-empty message list is counted even
\* when a text is present
ApproxCountTokensMessagesFirst(kind, params, c) ==
    IF params.Model = ""
    THEN [tc |-> ZeroTokenCount, cache |-> c,
          err |-> NewError(ErrInvalidParams, "model is required", NoErr)]
    ELSE IF ~params.Text.present /\ Len(params.Messages) = 0
    THEN [tc |-> ZeroTokenCount, cache |-> c,
          err |-> NewError(ErrInvalidParams,
                           "either text or messages must be provided", NoErr)]
    ELSE LET counted ==
                 IF Len(params.Messages) > 0
                 THEN CountMessageTokens(kind, c, params.Messages, params.Tools,
                                         params.ToolChoice)
                 ELSE ApproximateTokenCount(kind, c, params.Text.s)
             inputTokens == counted.count
             responseTokens ==
                 IF ~params.CountResponseTokens THEN 0
                 ELSE IF kind = "claude"
                 THEN ClaudeEstimateResponseTokens(params.Model, inputTokens)
                 ELSE EstimateResponseTokens(params.Model, inputTokens)
         IN  [tc |-> TokenCount(inputTokens, responseTokens,
                                inputTokens + responseTokens),
              cache |-> counted.cache, err |-> NoErr]

\* ClaudeProvider.CountTokens and GeminiProvider.CountTokens
ApproxCountTokens(kind, params, c) ==
    IF params.Model = ""
    THEN [tc |-> ZeroTokenCount, cache |-> c,
          err |-> NewError(ErrInvalidParams, "model is required", NoErr)]
    ELSE IF ~params.Text.present /\ Len(params.Messages) = 0
    THEN [tc |-> ZeroTokenCount, cache |-> c,
          err |-> NewError(ErrInvalidParams,
                           "either text or messages must be provided", NoErr)]
    ELSE LET counted ==
                 IF params.Text.present
                 THEN ApproximateTokenCount(kind, c, params.Text.s)
                 ELSE CountMessageTokens(kind, c, params.Messages, params.Tools,
                                         params.ToolChoice)
             inputTokens == counted.count
             responseTokens ==
                 IF ~params.CountResponseTokens THEN 0
                 ELSE IF kind = "claude"
                 THEN ClaudeEstimateResponseTokens(params.Model, inputTokens)
                 ELSE EstimateResponseTokens(params.Model, inputTokens)
         IN  [tc |-> TokenCount(inputTokens, responseTokens,
                                inputTokens + responseTokens),
              cache |-> counted.cache, err |-> NoErr]

\* MockProvider.CountTokens
MockCountTokens(p, params, c) ==
    IF params.Model \notin p.supportedModels
    THEN [tc |-> ZeroTokenCount, cache |-> c,
          err |-> NewError(ErrInvalidModel, "unsupported model", NoErr)]
    ELSE [tc |-> p.tokenCount, cache |-> c, err |-> NoErr]

\* Provider.CountTokens, dispatched on the implementation:
\* [tc, err, cache after the call]
ProviderCountTokens(p, params, c, encOK) ==
    CASE p.kind = "openai" -> OpenAICountTokens(params, c, encOK)
      [] p.kind \in {"claude", "gemini"} -> ApproxCountTokens(p.kind, params, c)
      [] p.kind = "mock" -> MockCountTokens(p, params, c)
      [] OTHER -> [tc |-> ZeroTokenCount, cache |-> c, err |-> NoErr]

----------------------------------------------------------------------------
(* Configuration: the pricing table (config.go)                             *)

\* NewConfig: the default pricing, in nano-USD per token
NewConfig ==
    [prov \in {"openai", "anthropic", "gemini"} |->
       CASE prov = "openai" ->
              [m \in {"gpt-3.5-turbo", "gpt-4"} |->
                 IF m = "gpt-3.5-turbo" THEN ModelPricing(1500, 2000, "USD")
                 ELSE ModelPricing(30000, 60000, "USD")]
         [] prov = "anthropic" ->
              [m \in {"claude-3-haiku", "claude-3-sonnet", "claude-3-opus"} |->
                 IF m = "claude-3-haiku" THEN ModelPricing(250, 1250, "USD")
                 ELSE IF m = "claude-3-sonnet" THEN ModelPricing(3000, 15000, "USD")
                 ELSE ModelPricing(10000, 30000, "USD")]
         [] OTHER ->
              [m \in {"gemini-pro", "gemini-ultra"} |->
                 IF m = "gemini-pro" THEN ModelPricing(250, 500, "USD")
                 ELSE ModelPricing(10000, 30000, "USD")]]

\* Config.GetModelPricing: (pricing, exists) on a table cfg
GetModelPricing(cfg, provider, model) ==
    IF provider \notin DOMAIN cfg
    THEN [pricing |-> ZeroModelPricing, exists |-> FALSE]
    ELSE IF model \notin DOMAIN cfg[provider]
    THEN [pricing |-> ZeroModelPricing, exists |-> FALSE]
    ELSE [pricing |-> cfg[provider][model], exists |-> TRUE]

\* Mutant of SetModelPricing: no entry is created for an unknown provider
SetModelPricingIfKnown(cfg, provider, model, pricing) ==
    IF provider \notin DOMAIN cfg THEN cfg
    ELSE [cfg EXCEPT ![provider] =
            [m \in (DOMAIN @) \cup {model} |->
               IF m = model THEN pricing ELSE @[m]]]

\* Config.SetModelPricing: the table after the write
SetModelPricing(cfg, provider, model, pricing) ==
    LET old == IF provider \in DOMAIN cfg THEN cfg[provider] ELSE <<>>
        new == [m \in (DOMAIN old) \cup {model} |->
                  IF m = model THEN pricing ELSE old[m]]
    IN  [pr \in (DOMAIN cfg) \cup {provider} |->
           IF pr = provider THEN new ELSE cfg[pr]]

\* Mutant of PriceOf: the output cost is computed with the input price
PriceAtInputRate(pricing, inputTokens, outputTokens) ==
    LET inputCost == inputTokens * pricing.InputPricePerToken
        outputCost == outputTokens * pricing.InputPricePerToken
    IN  Price(inputCost, outputCost, inputCost + outputCost, pricing.Currency)

\* The cost arithmetic shared by the three CalculatePrice methods
PriceOf(pricing, inputTokens, outputTokens) ==
    LET inputCost == inputTokens * pricing.InputPricePerToken
        outputCost == outputTokens * pricing.OutputPricePerToken
    IN  Price(inputCost, outputCost, inputCost + outputCost, pricing.Currency)

\* The lookup-then-multiply body of CalculatePrice for provider name prov
LookupPrice(cfg, prov, model, inputTokens, outputTokens) ==
    LET got == GetModelPricing(cfg, prov, model)
    IN  IF ~got.exists
        THEN [price |-> ZeroPrice,
              err |-> NewError(ErrPricingNotFound,
                               "pricing not found for model: " \o model, NoErr)]
        ELSE [price |-> PriceOf(got.pricing, inputTokens, outputTokens),
              err |-> NoErr]

\* OpenAIProvider.CalculatePrice
OpenAICalculatePrice(cfg, model, inputTokens, outputTokens) ==
    IF model = ""
    THEN [price |-> ZeroPrice,
          err |-> NewError(ErrInvalidParams, "model is required", NoErr)]
    ELSE LookupPrice(cfg, "openai", model, inputTokens, outputTokens)

\* ClaudeProvider.CalculatePrice
ClaudeCalculatePrice(cfg, model, inputTokens, outputTokens) ==
    LookupPrice(cfg, "anthropic", model, inputTokens, outputTokens)

\* GeminiProvider.CalculatePrice
GeminiCalculatePrice(cfg, model, inputTokens, outputTokens) ==
    LookupPrice(cfg, "gemini", model, inputTokens, outputTokens)

\* MockProvider.CalculatePrice
MockCalculatePrice(p, model) ==
    IF model \notin p.supportedModels
    THEN [price |-> ZeroPrice,
          err |-> NewError(ErrInvalidModel, "unsupported model", NoErr)]
    ELSE [price |-> p.price, err |-> NoErr]

\* Provider.CalculatePrice, dispatched on the implementation: [price, err]
ProviderCalculatePrice(p, cfg, model, inputTokens, outputTokens) ==
    CASE p.kind = "openai" -> OpenAICalculatePrice(cfg, model, inputTokens, outputTokens)
      [] p.kind = "claude" -> ClaudeCalculatePrice(cfg, model, inputTokens, outputTokens)
      [] p.kind = "gemini" -> GeminiCalculatePrice(cfg, model, inputTokens, outputTokens)
      [] p.kind = "mock" -> MockCalculatePrice(p, model)
      [] OTHER -> [price |-> ZeroPrice, err |-> NoErr]

\* Mutant of OpenAIUpdatePricing: gpt-4o is priced as well
OpenAIUpdatePricingWithGPT4o(cfg) ==
    LET c1 == SetModelPricing(cfg, "openai", "gpt-3.5-turbo",
                              ModelPricing(1500, 2000, "USD"))
        c2 == SetModelPricing(c1, "openai", "gpt-4",
                              ModelPricing(30000, 60000, "USD"))
        c3 == SetModelPricing(c2, "openai", "gpt-4-turbo",
                              ModelPricing(10000, 30000, "USD"))
    IN  SetModelPricing(c3, "openai", "gpt-4o", ModelPricing(5000, 15000, "USD"))

\* OpenAIProvider.UpdatePricing: three SetModelPricing calls, in order
OpenAIUpdatePricing(cfg) ==
    LET c1 == SetModelPricing(cfg, "openai", "gpt-3.5-turbo",
                              ModelPricing(1500, 2000, "USD"))
        c2 == SetModelPricing(c1, "openai", "gpt-4",
                              ModelPricing(30000, 60000, "USD"))
    IN  SetModelPricing(c2, "openai", "gpt-4-turbo",
                        ModelPricing(10000, 30000, "USD"))

\* ClaudeProvider.UpdatePricing
ClaudeUpdatePricing(cfg) ==
    LET c1 == SetModelPricing(cfg, "anthropic", "claude-3-haiku",
                              ModelPricing(250, 1250, "USD"))
        c2 == SetModelPricing(c1, "anthropic", "claude-3-sonnet",
                              ModelPricing(3000, 15000, "USD"))
    IN  SetModelPricing(c2, "anthropic", "claude-3-opus",
                        ModelPricing(15000, 75000, "USD"))

\* GeminiProvider.UpdatePricing
GeminiUpdatePricing(cfg) ==
    LET c1 == SetModelPricing(cfg, "gemini", "gemini-pro",
                              ModelPricing(250, 500, "USD"))
    IN  SetModelPricing(c1, "gemini", "gemini-ultra",
                        ModelPricing(10000, 30000, "USD"))

\* Provider.UpdatePricing, dispatched: the table after the call (the
\* built-in implementations and the test doubles always return nil)
ProviderUpdatePricing(p, cfg) ==
    CASE p.kind = "openai" -> OpenAIUpdatePricing(cfg)
      [] p.kind = "claude" -> ClaudeUpdatePricing(cfg)
      [] p.kind = "gemini" -> GeminiUpdatePricing(cfg)
      [] OTHER -> cfg

\* The SetModelPricing calls UpdatePricing makes, in the order it makes them
UpdatePricingWrites(p) ==
    CASE p.kind = "openai" ->
           <<[model |-> "gpt-3.5-turbo", pricing |-> ModelPricing(1500, 2000, "USD")],
             [model |-> "gpt-4", pricing |-> ModelPricing(30000, 60000, "USD")],
             [model |-> "gpt-4-turbo", pricing |-> ModelPricing(10000, 30000, "USD")]>>
      [] p.kind = "claude" ->
           <<[model |-> "claude-3-haiku", pricing |-> ModelPricing(250, 1250, "USD")],
             [model |-> "claude-3-sonnet", pricing |-> ModelPricing(3000, 15000, "USD")],
             [model |-> "claude-3-opus", pricing |-> ModelPricing(15000, 75000, "USD")]>>
      [] p.kind = "gemini" ->
           <<[model |-> "gemini-pro", pricing |-> ModelPricing(250, 500, "USD")],
             [model |-> "gemini-ultra", pricing |-> ModelPricing(10000, 30000, "USD")]>>
      [] OTHER -> <<>>

----------------------------------------------------------------------------
(* Vendor responses.  A response is [tag, usage, count]:                    *)
(*   tag "nil"      the nil interface                                       *)
(*   tag "other"    a value that is no map and has no accessor              *)
(*   tag "accessor" a value with a GetTokenCount() int method (count)       *)
(*   tag "map"      a map[string]interface{}; usage is its "usage" entry    *)
(* usage is [tag, fields]: "absent", "other" (not a map) or "map", whose    *)
(* fields map field names to JSON values [t, h]: a number (in halves) or a  *)
(* string.                                                                  *)

JSONNumber(h) == [t |-> "num", h |-> h]
JSONString == [t |-> "str", h |-> 0]

NoUsage == [tag |-> "absent", fields |-> <<>>]
NilResponse == [tag |-> "nil", usage |-> NoUsage, count |-> 0]
OtherResponse == [tag |-> "other", usage |-> NoUsage, count |-> 0]
AccessorResponse(n) == [tag |-> "accessor", usage |-> NoUsage, count |-> n]
MapResponse(usage) == [tag |-> "map", usage |-> usage, count |-> 0]
UsageMap(fields) == [tag |-> "map", fields |-> fields]

\* Mutant of IsFloat: a field of any JSON type passes for a number
IsPresent(fields, key) == key \in DOMAIN fields

\* usage[key].(float64): the type assertion succeeds on a present number
IsFloat(fields, key) == key \in DOMAIN fields /\ fields[key].t = "num"

InvalidResponse(message) ==
    [tc |-> ZeroTokenCount, err |-> NewError(ErrInvalidParams, message, NoErr)]

\* The checks every ExtractTokenUsageFromResponse makes before reading the
\* counts: NoErr when the response is a map with a usage map
UsageError(response) ==
    IF response.tag = "nil" THEN InvalidResponse("response is nil").err
    ELSE IF response.tag # "map" THEN InvalidResponse("response is not a map").err
    ELSE IF response.usage.tag # "map"
    THEN InvalidResponse("usage information not found in response").err
    ELSE NoErr

\* OpenAIProvider.ExtractTokenUsageFromResponse
OpenAIExtractTokenUsage(response) ==
    IF UsageError(response) # NoErr
    THEN [tc |-> ZeroTokenCount, err |-> UsageError(response)]
    ELSE LET usage == response.usage.fields
         IN  IF ~IsFloat(usage, "prompt_tokens")
                \/ ~IsFloat(usage, "completion_tokens")
                \/ ~IsFloat(usage, "total_tokens")
             THEN InvalidResponse("token counts not found in response")
             ELSE [tc |-> TokenCount(IntOfFloat(usage["prompt_tokens"].h),
                                     IntOfFloat(usage["completion_tokens"].h),
                                     IntOfFloat(usage["total_tokens"].h)),
                   err |-> NoErr]

\* GeminiProvider.ExtractTokenUsageFromResponse
GeminiExtractTokenUsage(response) ==
    IF UsageError(response) # NoErr
    THEN [tc |-> ZeroTokenCount, err |-> UsageError(response)]
    ELSE LET usage == response.usage.fields
         IN  IF ~IsFloat(usage, "prompt_tokens")
                \/ ~IsFloat(usage, "completion_tokens")
                \/ ~IsFloat(usage, "total_tokens")
             THEN InvalidResponse("token counts not found in response")
             ELSE [tc |-> TokenCount(IntOfFloat(usage["prompt_tokens"].h),
                                     IntOfFloat(usage["completion_tokens"].h),
                                     IntOfFloat(usage["total_tokens"].h)),
                   err |-> NoErr]

\* ClaudeProvider.ExtractTokenUsageFromResponse
ClaudeExtractTokenUsage(response) ==
    IF UsageError(response) # NoErr
    THEN [tc |-> ZeroTokenCount, err |-> UsageError(response)]
    ELSE LET usage == response.usage.fields
         IN  IF ~IsFloat(usage, "input_tokens") \/ ~IsFloat(usage, "output_tokens")
             THEN InvalidResponse("token counts not found in response")
             ELSE [tc |-> TokenCount(IntOfFloat(usage["input_tokens"].h),
                                     IntOfFloat(usage["output_tokens"].h),
                                     IntOfFloat(usage["input_tokens"].h)
                                     + IntOfFloat(usage["output_tokens"].h)),
                   err |-> NoErr]

\* Provider.ExtractTokenUsageFromResponse, dispatched: [tc, err]
ProviderExtractTokenUsage(p, response) ==
    CASE p.kind = "openai" -> OpenAIExtractTokenUsage(response)
      [] p.kind = "claude" -> ClaudeExtractTokenUsage(response)
      [] p.kind = "gemini" -> GeminiExtractTokenUsage(response)
      [] OTHER -> [tc |-> ZeroTokenCount, err |-> NoErr]

\* The model information a provider returns is a map from keys to values;
\* NilInfo is the nil interface{}
NilInfo == <<>>

\* ClaudeProvider.modelInfo as initializeModelInfo fills it
ClaudeModelInfo ==
    [m \in {"claude-3-haiku", "claude-3-sonnet", "claude-3-opus"} |->
       [contextWindow |-> 200000,
        description |->
           IF m = "claude-3-haiku"
           THEN "Claude 3 Haiku - fastest and most compact model"
           ELSE IF m = "claude-3-sonnet"
           THEN "Claude 3 Sonnet - balanced performance and intelligence"
           ELSE "Claude 3 Opus - most powerful model for complex tasks"]]

\* OpenAIProvider.GetModelInfo: [info, err]
OpenAIGetModelInfo(model) ==
    [info |-> [name |-> model, provider |-> "openai",
               capabilities |-> <<"text", "chat", "function-calling">>],
     err |-> NoErr]

\* GeminiProvider.GetModelInfo
GeminiGetModelInfo(model) ==
    [info |-> [name |-> model, provider |-> "gemini",
               capabilities |-> <<"text", "chat", "image-understanding">>],
     err |-> NoErr]

\* ClaudeProvider.GetModelInfo
ClaudeGetModelInfo(model) ==
    IF model \notin DOMAIN ClaudeModelInfo
    THEN [info |-> NilInfo,
          err |-> NewError(ErrInvalidModel,
                           "model info not found for: " \o model, NoErr)]
    ELSE [info |-> ClaudeModelInfo[model], err |-> NoErr]

\* Provider.GetModelInfo, dispatched (the test doubles return nil, nil)
ProviderGetModelInfo(p, model) ==
    CASE p.kind = "openai" -> OpenAIGetModelInfo(model)
      [] p.kind = "claude" -> ClaudeGetModelInfo(model)
      [] p.kind = "gemini" -> GeminiGetModelInfo(model)
      [] OTHER -> [info |-> NilInfo, err |-> NoErr]

----------------------------------------------------------------------------
(* The provider registry (provider.go).  reg is the map name -> Provider.   *)
(* Go iterates a map in an unspecified order: an iteration is given the     *)
(* order in which it visits the keys.                                       *)

NilProvider ==
    [kind |-> "nil", name |-> "", supportedModels |-> {},
     tokenCount |-> ZeroTokenCount, price |-> ZeroPrice,
     sdkClient |-> NilClient, updateErr |-> NoErr]

\* NewProviderRegistry: the empty map
NewProviderRegistry == <<>>

\* Every order in which `range reg` may visit the keys
Orders(reg) ==
    LET n == Cardinality(DOMAIN reg)
    IN  {o \in [1..n -> DOMAIN reg] : \A i, j \in 1..n : o[i] = o[j] => i = j}

\* Mutant of Register: an existing entry is kept (first write wins)
RegisterIfAbsent(reg, p) ==
    [n \in (DOMAIN reg) \cup {Name(p)} |-> IF n \in DOMAIN reg THEN reg[n] ELSE p]

\* ProviderRegistry.Register: the map after the write
Register(reg, p) ==
    [n \in (DOMAIN reg) \cup {Name(p)} |-> IF n = Name(p) THEN p ELSE reg[n]]

\* ProviderRegistry.Get: (provider, exists)
Get(reg, name) ==
    IF name \in DOMAIN reg THEN [provider |-> reg[name], exists |-> TRUE]
    ELSE [provider |-> NilProvider, exists |-> FALSE]

\* Mutant of FirstSupporting: the first provider visited is returned without
\* asking it whether it supports the model
FirstVisited(reg, order, model) ==
    IF order = <<>> THEN [provider |-> NilProvider, exists |-> FALSE]
    ELSE [provider |-> reg[Head(order)], exists |-> TRUE]

RECURSIVE FirstSupporting(_, _, _)
\* The loop of GetForModel over the keys still to visit
FirstSupporting(reg, order, model) ==
    IF order = <<>> THEN [provider |-> NilProvider, exists |-> FALSE]
    ELSE IF SupportsModel(reg[Head(order)], model)
    THEN [provider |-> reg[Head(order)], exists |-> TRUE]
    ELSE FirstSupporting(reg, Tail(order), model)

\* ProviderRegistry.GetForModel under one iteration order: (provider, exists)
GetForModel(reg, order, model) == FirstSupporting(reg, order, model)

\* ProviderRegistry.All under one iteration order: the slice returned
All(reg, order) == [i \in 1..Len(order) |-> reg[order[i]]]

----------------------------------------------------------------------------
(* The registry's lock (sync.RWMutex): one writer, or any number of       *)
(* readers.  m is [writer, readers]: whether a writer holds the lock, and   *)
(* how many readers hold it.                                                *)

\* The zero RWMutex of NewProviderRegistry
NewRWMutex == [writer |-> FALSE, readers |-> 0]

\* Mutant of CanLock: a writer enters although readers hold the lock
CanLockAmongReaders(m) == ~m.writer

\* r.mu.Lock() returns only when nobody holds the lock
CanLock(m) == ~m.writer /\ m.readers = 0

\* r.mu.RLock() returns only when no writer holds the lock
CanRLock(m) == ~m.writer

Lock(m) == [m EXCEPT !.writer = TRUE]
Unlock(m) == [m EXCEPT !.writer = FALSE]
RLock(m) == [m EXCEPT !.readers = @ + 1]
RUnlock(m) == [m EXCEPT !.readers = @ - 1]

\* The goroutines of TestProviderRegistry_ThreadSafety
NumRegistrars == 2
NumReaders == 2
Registrars == 1..NumRegistrars
Readers == 1..NumReaders

\* The provider goroutine id registers: provider-<id>, supporting model-<id>
ThreadProvider(id) ==
    MockSimpleProvider("provider-" \o ToString(id), {"model-" \o ToString(id)})

\* What a reading goroutine holds: the call it is in (Get, GetForModel, All,
\* then done), its position in that call (rlock, read, runlock), the
\* registrars whose Register had returned when the call began, and the call's
\* result: (provider, exists) of Get and GetForModel, the slice of All, and
\* whether the read hit the map while it was being written.
NoResult ==
    [provider |-> NilProvider, exists |-> FALSE, all |-> <<>>, fatal |-> FALSE]

ReaderStart ==
    [call |-> "Get", pc |-> "rlock", returned |-> {}, result |-> NoResult]

----------------------------------------------------------------------------
(* The tracker (DefaultTokenTracker).  Each operation is given the registry *)
(* reg, the pricing table cfg, the cache c and what its environment         *)
(* decides: the order of each map iteration, whether the tokenizer          *)
(* encoding can be loaded (encOK), the clock.  It returns its results, the  *)
(* cache after it, and `calls`, the log of the calls it made to the         *)
(* registry and to providers, one record [fn, provider, model, crt] each.   *)

Call(fn, provider, model, crt) ==
    [fn |-> fn, provider |-> provider, model |-> model, crt |-> crt]

\* Mutant of UsageMetrics: the model is stored as the provider name
UsageMetricsOfModel(tokenCount, price, duration, timestamp, model, provider) ==
    [TokenCount |-> tokenCount, Price |-> price, Duration |-> duration,
     Timestamp |-> timestamp, Model |-> model, Provider |-> model]

UsageMetrics(tokenCount, price, duration, timestamp, model, provider) ==
    [TokenCount |-> tokenCount, Price |-> price, Duration |-> duration,
     Timestamp |-> timestamp, Model |-> model, Provider |-> provider]

ZeroUsageMetrics == UsageMetrics(ZeroTokenCount, ZeroPrice, 0, 0, "", "")

\* Mutant of TrackerCountTokens: the empty model is not rejected before the
\* registry is asked
TrackerCountTokensUnvalidated(reg, order, params, c, encOK) ==
    LET found == GetForModel(reg, order, params.Model)
        lookup == Call("GetForModel", "", params.Model, FALSE)
    IN  IF ~found.exists
        THEN [tc |-> ZeroTokenCount, cache |-> c, calls |-> <<lookup>>,
              err |-> NewError(ErrProviderNotFound,
                               "no provider found for model: " \o params.Model,
                               NoErr)]
        ELSE LET r == ProviderCountTokens(found.provider, params, c, encOK)
             IN  [tc |-> r.tc, cache |-> r.cache, err |-> r.err,
                  calls |-> <<lookup,
                              Call("CountTokens", Name(found.provider),
                                   params.Model, params.CountResponseTokens)>>]

\* DefaultTokenTracker.CountTokens: [tc, err, cache, calls]
TrackerCountTokens(reg, order, params, c, encOK) ==
    IF params.Model = ""
    THEN [tc |-> ZeroTokenCount, cache |-> c, calls |-> <<>>,
          err |-> NewError(ErrInvalidParams, "model is required", NoErr)]
    ELSE LET found == GetForModel(reg, order, params.Model)
             lookup == Call("GetForModel", "", params.Model, FALSE)
         IN  IF ~found.exists
             THEN [tc |-> ZeroTokenCount, cache |-> c, calls |-> <<lookup>>,
                   err |-> NewError(ErrProviderNotFound,
                                    "no provider found for model: "
                                    \o params.Model, NoErr)]
             ELSE LET r == ProviderCountTokens(found.provider, params, c, encOK)
                  IN  [tc |-> r.tc, cache |-> r.cache, err |-> r.err,
                       calls |-> <<lookup,
                                   Call("CountTokens", Name(found.provider),
                                        params.Model,
                                        params.CountResponseTokens)>>]

\* DefaultTokenTracker.CalculatePrice: [price, err, calls]
TrackerCalculatePrice(reg, order, cfg, model, inputTokens, outputTokens) ==
    IF model = ""
    THEN [price |-> ZeroPrice, calls |-> <<>>,
          err |-> NewError(ErrInvalidParams, "model is required", NoErr)]
    ELSE LET found == GetForModel(reg, order, model)
             lookup == Call("GetForModel", "", model, FALSE)
         IN  IF ~found.exists
             THEN [price |-> ZeroPrice, calls |-> <<lookup>>,
                   err |-> NewError(ErrProviderNotFound,
                                    "no provider found for model: " \o model,
                                    NoErr)]
             ELSE LET r == ProviderCalculatePrice(found.provider, cfg, model,
                                                  inputTokens, outputTokens)
                  IN  [price |-> r.price, err |-> r.err,
                       calls |-> <<lookup,
                                   Call("CalculatePrice", Name(found.provider),
                                        model, FALSE)>>]

\* Mutant of OutputTokens: the estimate's TotalTokens is taken
OutputTokensFromTotal(reg, order, callParams, response, c, encOK) ==
    IF response.tag = "accessor"
    THEN [out |-> response.count, cache |-> c, calls |-> <<>>]
    ELSE LET found == GetForModel(reg, order, callParams.Model)
             lookup == Call("GetForModel", "", callParams.Model, FALSE)
         IN  IF ~found.exists
             THEN [out |-> 0, cache |-> c, calls |-> <<lookup>>]
             ELSE LET estimateParams ==
                          [callParams.Params EXCEPT !.CountResponseTokens = TRUE]
                      estimate == ProviderCountTokens(found.provider,
                                                      estimateParams, c, encOK)
                  IN  [out |-> IF estimate.err = NoErr
                               THEN estimate.tc.TotalTokens ELSE 0,
                       cache |-> estimate.cache,
                       calls |-> <<lookup,
                                   Call("CountTokens", Name(found.provider),
                                        estimateParams.Model, TRUE)>>]

\* Step 2 of TrackUsage: the output-token count, [out, cache, calls]
OutputTokens(reg, order, callParams, response, c, encOK) ==
    IF response.tag = "accessor"
    THEN [out |-> response.count, cache |-> c, calls |-> <<>>]
    ELSE LET found == GetForModel(reg, order, callParams.Model)
             lookup == Call("GetForModel", "", callParams.Model, FALSE)
         IN  IF ~found.exists
             THEN [out |-> 0, cache |-> c, calls |-> <<lookup>>]
             ELSE LET estimateParams ==
                          [callParams.Params EXCEPT !.CountResponseTokens = TRUE]
                      estimate == ProviderCountTokens(found.provider,
                                                      estimateParams, c, encOK)
                  IN  [out |-> IF estimate.err = NoErr
                               THEN estimate.tc.ResponseTokens ELSE 0,
                       cache |-> estimate.cache,
                       calls |-> <<lookup,
                                   Call("CountTokens", Name(found.provider),
                                        estimateParams.Model, TRUE)>>]

\* Mutant of TrackUsage: an error is remembered but the later steps still
\* run and the metrics computed so far are returned with it
TrackUsageKeepGoing(reg, cfg, c, callParams, response, env) ==
    LET inputCount == TrackerCountTokens(reg, env.orders[1], callParams.Params,
                                         c, env.encOK[1])
        output == OutputTokens(reg, env.orders[2], callParams, response,
                               inputCount.cache, env.encOK[2])
        priced == TrackerCalculatePrice(reg, env.orders[3], cfg,
                                        callParams.Model,
                                        inputCount.tc.InputTokens, output.out)
        named == GetForModel(reg, env.orders[4], callParams.Model)
    IN  [metrics |->
             UsageMetrics(TokenCount(inputCount.tc.InputTokens, output.out,
                                     inputCount.tc.InputTokens + output.out),
                          priced.price, env.now - callParams.StartTime, env.now,
                          callParams.Model, Name(named.provider)),
         err |-> IF inputCount.err # NoErr THEN inputCount.err ELSE priced.err,
         panic |-> FALSE, cache |-> output.cache, out |-> output.out,
         calls |-> inputCount.calls \o output.calls \o priced.calls
                   \o <<Call("GetForModel", "", callParams.Model, FALSE)>>]

\* The one element of a singleton set: Only({F(x) : x \in {e}}) is F(e) with
\* e computed once
Only(S) == CHOOSE x \in S : TRUE

\* Mutant of TrackUsageMetrics: Model is the model of the counted params
TrackUsageMetricsOfParams(reg, callParams, env, inputTokens, outputTokens, price) ==
    LET named == GetForModel(reg, env.orders[4], callParams.Model)
    IN  IF ~named.exists
        THEN [metrics |-> ZeroUsageMetrics, panic |-> TRUE]
        ELSE [metrics |->
                  UsageMetrics(TokenCount(inputTokens, outputTokens,
                                          inputTokens + outputTokens),
                               price, env.now - callParams.StartTime, env.now,
                               callParams.Params.Model, Name(named.provider)),
              panic |-> FALSE]

\* TrackUsage from step 4 on: the duration, the provider name, the metrics
TrackUsageMetrics(reg, callParams, env, inputTokens, outputTokens, price) ==
    LET duration == env.now - callParams.StartTime
        named == GetForModel(reg, env.orders[4], callParams.Model)
    IN  IF ~named.exists
        THEN \* provider.Name() on a nil interface value
             [metrics |-> ZeroUsageMetrics, panic |-> TRUE]
        ELSE [metrics |->
                  UsageMetrics(TokenCount(inputTokens, outputTokens,
                                          inputTokens + outputTokens),
                               price, duration, env.now, callParams.Model,
                               Name(named.provider)),
              panic |-> FALSE]

\* DefaultTokenTracker.TrackUsage: [metrics, err, panic, cache, calls, out];
\* out is the local outputTokens (0 while it is unassigned).
\* env = [orders (one per map iteration), encOK (one per provider count),
\*        now (the clock at time.Since and time.Now)]
TrackUsage(reg, cfg, c, callParams, response, env) ==
    Only({
        IF inputCount.err # NoErr
        THEN [metrics |-> ZeroUsageMetrics, err |-> inputCount.err,
              panic |-> FALSE, cache |-> inputCount.cache,
              calls |-> inputCount.calls, out |-> 0]
        ELSE Only({
            Only({
                IF priced.err # NoErr
                THEN [metrics |-> ZeroUsageMetrics, err |-> priced.err,
                      panic |-> FALSE, cache |-> output.cache,
                      calls |-> inputCount.calls \o output.calls
                                \o priced.calls,
                      out |-> output.out]
                ELSE Only({
                    [metrics |-> made.metrics, err |-> NoErr,
                     panic |-> made.panic, cache |-> output.cache,
                     calls |-> inputCount.calls \o output.calls
                               \o priced.calls
                               \o <<Call("GetForModel", "", callParams.Model,
                                         FALSE)>>,
                     out |-> output.out] :
                    made \in {TrackUsageMetrics(reg, callParams, env,
                                                inputCount.tc.InputTokens,
                                                output.out, priced.price)}}) :
                priced \in {TrackerCalculatePrice(reg, env.orders[3], cfg,
                                                  callParams.Model,
                                                  inputCount.tc.InputTokens,
                                                  output.out)}}) :
            output \in {OutputTokens(reg, env.orders[2], callParams, response,
                                     inputCount.cache, env.encOK[2])}}) :
        inputCount \in {TrackerCountTokens(reg, env.orders[1],
                                           callParams.Params, c, env.encOK[1])}})

\* CallParams
CallParams(model, params, startTime) ==
    [Model |-> model, Params |-> params, StartTime |-> startTime]

----------------------------------------------------------------------------
(* Initial state: a fresh registry, the default configuration, an empty     *)
(* cache, the lock free and no goroutine started.                           *)

\* No operation is in progress and no result is pending
Idle == [op |-> "idle"]

\* The goroutine inside UpdatePricing: the provider, the number of the
\* SetModelPricing call it makes next (0 when no call is in progress) and the
\* table as it was when the call began
NoUpdater == [pc |-> 0, provider |-> NilProvider, before |-> <<>>]

\* The goroutines that call TrackUsage side by side
NumTrackers == 2
Trackers == 1..NumTrackers

\* A goroutine that has not called TrackUsage yet
NoTracking == [pc |-> "start"]

\* Config as NewConfig leaves it: AutoUpdatePricing (enabled) false,
\* pricingUpdateTimer (timer) nil, written 0; no timer created (timers holds
\* "armed" or "idle" for each timer), no callback started, and the caller
\* outside EnableAutomaticPricingUpdates and DisableAutomaticPricingUpdates
NewAuto ==
    [enabled |-> FALSE, timer |-> 0, timers |-> <<>>, callbacks |-> <<>>,
     caller |-> "idle", created |-> 0, returned |-> "none",
     rearmedAfterDisable |-> FALSE]

\* The goroutines that take the locks side by side
NumWorkers == 2
Workers == 1..NumWorkers

\* A goroutine outside every operation: nothing left to do, no lock held,
\* not waiting inside Lock
NoWork == [op |-> "none", script |-> <<>>, held |-> <<>>, waiting |-> FALSE]

\* Config.mu and ClaudeProvider.mu free, every goroutine outside an operation
NewSched ==
    [configMu |-> NewRWMutex, providerMu |-> NewRWMutex,
     workers |-> [w \in Workers |-> NoWork]]

\* The goroutine inside CleanupCache: its position (idle, body, unlock), its
\* maxSize and the cache as it was when it took the lock
NoCleaner == [pc |-> "idle", maxSize |-> 0, before |-> <<>>]

Init ==
    /\ providers = NewProviderRegistry
    /\ config = NewConfig
    /\ cache = <<>>
    /\ mu = NewRWMutex
    /\ registrar = [i \in Registrars |-> "start"]
    /\ reader = [j \in Readers |-> ReaderStart]
    /\ updater = NoUpdater
    /\ cacheMu = NewRWMutex
    /\ cleaner = NoCleaner
    /\ tracking = [t \in Trackers |-> NoTracking]
    /\ auto = NewAuto
    /\ sched = NewSched
    /\ last = Idle

\* The caller takes the result of the operation; the next call can start
Return ==
    /\ last # Idle
    /\ last' = Idle
    /\ UNCHANGED <<providers, config, cache, conc>>

----------------------------------------------------------------------------
(* SpecRegistry: the registry alone, driven as in the registry tests        *)

\* The providers of TestProviderRegistry_GetForModel, and a second provider
\* named provider-1 with another allow-list
SimpleProviders ==
    {MockSimpleProvider("provider-1", {"model-1", "shared-model"}),
     MockSimpleProvider("provider-2", {"model-2", "shared-model"}),
     MockSimpleProvider("provider-3", {"model-3"}),
     MockSimpleProvider("provider-1", {"model-3"})}

RegistryNames == {"provider-1", "provider-2", "provider-3", "provider-4"}

RegistryModels ==
    {"model-1", "model-2", "model-3", "shared-model", "unsupported-model", ""}

\* registry.Register(p)
DoRegister(p) ==
    /\ last = Idle
    /\ providers' = Register(providers, p)
    /\ last' = [op |-> "Register", provider |-> p, before |-> providers]
    /\ UNCHANGED <<config, cache, conc>>

\* registry.Get(name)
DoGet(name) ==
    /\ last = Idle
    /\ last' = [op |-> "Get", name |-> name, result |-> Get(providers, name)]
    /\ UNCHANGED <<providers, config, cache, conc>>

\* registry.GetForModel(model), the map visited in some order
DoGetForModel(model) ==
    /\ last = Idle
    /\ \E order \in Orders(providers) :
          last' = [op |-> "GetForModel", model |-> model, order |-> order,
                   result |-> GetForModel(providers, order, model)]
    /\ UNCHANGED <<providers, config, cache, conc>>

\* registry.All(), the map visited in some order
DoAll ==
    /\ last = Idle
    /\ \E order \in Orders(providers) :
          last' = [op |-> "All", order |-> order,
                   result |-> All(providers, order)]
    /\ UNCHANGED <<providers, config, cache, conc>>

NextRegistry ==
    \/ \E p \in SimpleProviders : DoRegister(p)
    \/ \E name \in RegistryNames : DoGet(name)
    \/ \E model \in RegistryModels : DoGetForModel(model)
    \/ DoAll
    \/ Return

SpecRegistry == Init /\ [][NextRegistry]_vars

\* The names of the registered providers that support a model
Supporters(reg, model) == {n \in DOMAIN reg : SupportsModel(reg[n], model)}

\* C2: if exactly one registered provider supports the model, GetForModel
\* returns that provider with found = true, whatever the registration order
\* and the iteration order; if none supports it, it returns not-found.
C2_ResolutionDeterminism ==
    last.op = "GetForModel" =>
        LET S == Supporters(providers, last.model)
        IN  /\ Cardinality(S) = 1 =>
                  /\ last.result.exists
                  /\ \A n \in S : last.result.provider = providers[n]
            /\ S = {} => ~last.result.exists /\ last.result.provider = NilProvider

\* C2 witness: three providers, one supporter, and it is not visited first
C2_Witness ==
    /\ last.op = "GetForModel"
    /\ Cardinality(DOMAIN providers) = 3
    /\ Cardinality(Supporters(providers, last.model)) = 1
    /\ ~SupportsModel(providers[last.order[1]], last.model)
    /\ last.result.exists

\* C3: every Register call leaves exactly one entry per name (the entries
\* before it, and the one of the provider's name), makes Get return the
\* provider just registered under its name and leaves every other name as it
\* was (so Get always returns the most recent registration: last write
\* wins); and registering again the provider that is already registered
\* leaves the results of Get, GetForModel and All unchanged.
C3_RegisterLastWriteWins ==
    last.op = "Register" =>
        /\ DOMAIN providers = (DOMAIN last.before) \cup {Name(last.provider)}
        /\ Get(providers, Name(last.provider))
           = [provider |-> last.provider, exists |-> TRUE]
        /\ \A name \in RegistryNames \ {Name(last.provider)} :
              Get(providers, name) = Get(last.before, name)
        /\ Get(last.before, Name(last.provider))
           = [provider |-> last.provider, exists |-> TRUE]
              => /\ \A name \in RegistryNames :
                        Get(providers, name) = Get(last.before, name)
                 /\ \A model \in RegistryModels :
                        {GetForModel(providers, o, model) : o \in Orders(providers)}
                        = {GetForModel(last.before, o, model) :
                              o \in Orders(last.before)}
                 /\ {All(providers, o) : o \in Orders(providers)}
                    = {All(last.before, o) : o \in Orders(last.before)}

\* C3 witness: a Register call that replaces another provider of the same
\* name while two other providers are registered
C3_Witness ==
    /\ last.op = "Register"
    /\ Name(last.provider) \in DOMAIN last.before
    /\ last.before[Name(last.provider)] # last.provider
    /\ Cardinality(DOMAIN providers) = 3

----------------------------------------------------------------------------
(* SpecExtract: ExtractTokenUsageFromResponse of the built-in providers on  *)
(* vendor responses, and their GetModelInfo                                 *)

\* The largest JSON number of a usage field, in halves
MaxHalves == 2

UsageFieldNames ==
    {"prompt_tokens", "completion_tokens", "total_tokens",
     "input_tokens", "output_tokens"}

\* A usage field holds a number or a value of another JSON type
JSONValues == {JSONString} \cup {JSONNumber(h) : h \in 0..MaxHalves}

\* Every usage object: any subset of the fields, each with any value
UsageMaps == UNION {[F -> JSONValues] : F \in SUBSET UsageFieldNames}

Responses ==
    {NilResponse, OtherResponse, MapResponse(NoUsage),
     MapResponse([tag |-> "other", fields |-> <<>>])}
    \cup {MapResponse(UsageMap(fields)) : fields \in UsageMaps}

\* p.ExtractTokenUsageFromResponse(response)
ExtractTokenUsage(p, response) ==
    /\ last = Idle
    /\ LET r == ProviderExtractTokenUsage(p, response)
       IN  last' = [op |-> "ExtractTokenUsage", provider |-> p,
                    response |-> response, tc |-> r.tc, err |-> r.err]
    /\ UNCHANGED <<providers, config, cache, conc>>

InfoModels ==
    {"", "gpt-4", "claude-3-haiku", "claude-3-opus", "gemini-pro",
     "unknown-model"}

\* p.GetModelInfo(model)
GetModelInfo(p, model) ==
    /\ last = Idle
    /\ LET r == ProviderGetModelInfo(p, model)
       IN  last' = [op |-> "GetModelInfo", provider |-> p, model |-> model,
                    info |-> r.info, err |-> r.err]
    /\ UNCHANGED <<providers, config, cache, conc>>

NextExtract ==
    \/ \E p \in BuiltinProviders, response \in Responses :
          ExtractTokenUsage(p, response)
    \/ \E p \in BuiltinProviders, model \in InfoModels : GetModelInfo(p, model)
    \/ Return

SpecExtract == Init /\ [][NextExtract]_vars

\* C1: every TokenCount returned without error (by CountTokens and
\* ExtractTokenUsageFromResponse of a built-in provider, and inside the
\* UsageMetrics of TrackUsage) has TotalTokens = InputTokens + ResponseTokens,
\* also for a vendor response whose usage object carries its own total.
C1_TotalIsSum ==
    /\ (last.op \in {"ExtractTokenUsage", "CountTokens"} /\ last.err = NoErr)
          => last.tc.TotalTokens = last.tc.InputTokens + last.tc.ResponseTokens
    /\ (last.op = "TrackUsage" /\ last.err = NoErr)
          => last.metrics.TokenCount.TotalTokens
             = last.metrics.TokenCount.InputTokens
               + last.metrics.TokenCount.ResponseTokens

----------------------------------------------------------------------------
(* SpecCount: CountTokens of the built-in providers                         *)

CountModels == {"", "gpt-4", "claude-3-opus", "gemini-pro"}

CountParams ==
    {TokenCountParams(model, text, messages, tools, toolChoice, crt) :
        model \in CountModels,
        text \in {NilText, StringPtr("This is a test.")},
        messages \in {<<>>, <<Message("user", StringContent("Hi"))>>},
        tools \in {<<>>, <<"function">>},
        toolChoice \in {NilToolChoice, ToolChoicePtr("auto")},
        crt \in BOOLEAN}

\* p.CountTokens(params); the environment decides whether the tokenizer
\* encoding can be loaded
CountTokens(p, params) ==
    /\ last = Idle
    /\ \E encOK \in BOOLEAN :
        /\ LET r == ProviderCountTokens(p, params, cache, encOK)
           IN  /\ last' = [op |-> "CountTokens", provider |-> p,
                           params |-> params, encOK |-> encOK,
                           tc |-> r.tc, err |-> r.err]
               /\ cache' = r.cache
        /\ UNCHANGED <<providers, config, conc>>

NextCount ==
    \/ \E p \in BuiltinProviders, params \in CountParams : CountTokens(p, params)
    \/ Return

SpecCount == Init /\ [][NextCount]_vars

\* C6: CountTokens of every built-in provider fails with InvalidParams when
\* the model is empty, and when the model is non-empty but neither Text is
\* present nor Messages is non-empty; the TokenCount returned is the zero one.
C6_InvalidParams ==
    (/\ last.op = "CountTokens"
     /\ \/ last.params.Model = ""
        \/ ~last.params.Text.present /\ Len(last.params.Messages) = 0)
        => last.err.Type = ErrInvalidParams /\ last.tc = ZeroTokenCount

----------------------------------------------------------------------------
(* SpecPricing: CalculatePrice of the built-in providers while the pricing  *)
(* table is changed by SetModelPricing and UpdatePricing                    *)

PricingModels ==
    {"", "gpt-4", "gpt-4-turbo", "claude-3-opus", "gemini-pro", "unknown-model"}

PricedTokens == {0, 500, 1000}

SetProviders == {"openai", "anthropic", "custom"}
SetModels == {"", "gpt-4"}
SetPricings == {ModelPricing(7, 9, "EUR")}

\* p.CalculatePrice(model, inputTokens, outputTokens)
CalculatePrice(p, model, inputTokens, outputTokens) ==
    /\ last = Idle
    /\ LET r == ProviderCalculatePrice(p, config, model, inputTokens, outputTokens)
       IN  last' = [op |-> "CalculatePrice", provider |-> p, model |-> model,
                    inputTokens |-> inputTokens, outputTokens |-> outputTokens,
                    price |-> r.price, err |-> r.err]
    /\ UNCHANGED <<providers, config, cache, conc>>

\* config.SetModelPricing(provider, model, pricing)
DoSetModelPricing(provider, model, pricing) ==
    /\ last = Idle
    /\ config' = SetModelPricing(config, provider, model, pricing)
    /\ last' = [op |-> "SetModelPricing", provider |-> provider,
                model |-> model, pricing |-> pricing, before |-> config]
    /\ UNCHANGED <<providers, cache, conc>>

\* config.GetModelPricing(provider, model)
DoGetModelPricing(provider, model) ==
    /\ last = Idle
    /\ last' = [op |-> "GetModelPricing", provider |-> provider,
                model |-> model, before |-> config,
                result |-> GetModelPricing(config, provider, model)]
    /\ UNCHANGED <<providers, config, cache, conc>>

\* p.UpdatePricing()
UpdatePricing(p) ==
    /\ last = Idle
    /\ config' = ProviderUpdatePricing(p, config)
    /\ last' = [op |-> "UpdatePricing", provider |-> p]
    /\ UNCHANGED <<providers, cache, conc>>

NextPricing ==
    \/ \E p \in BuiltinProviders, model \in PricingModels,
          inputTokens \in PricedTokens, outputTokens \in PricedTokens :
          CalculatePrice(p, model, inputTokens, outputTokens)
    \/ \E provider \in SetProviders, model \in SetModels, pricing \in SetPricings :
          DoSetModelPricing(provider, model, pricing)
    \/ \E provider \in SetProviders, model \in PricingModels :
          DoGetModelPricing(provider, model)
    \/ \E p \in BuiltinProviders : UpdatePricing(p)
    \/ Return

SpecPricing == Init /\ [][NextPricing]_vars

\* Whether the table holds a pricing for (provider, model)
Stored(provider, model) ==
    provider \in DOMAIN config /\ model \in DOMAIN config[provider]

\* What the claim expects of a successful CalculatePrice: the costs are the
\* token counts times the per-token prices stored in the table
PricedFromTable ==
    LET pricing == config[Name(last.provider)][last.model]
    IN  /\ last.err = NoErr
        /\ last.price.InputCost = last.inputTokens * pricing.InputPricePerToken
        /\ last.price.OutputCost = last.outputTokens * pricing.OutputPricePerToken
        /\ last.price.TotalCost = last.price.InputCost + last.price.OutputCost
        /\ last.price.Currency = pricing.Currency

\* C10 as stated: CalculatePrice fails with PricingNotFound exactly when no
\* pricing is stored for (the provider's name, model), and otherwise returns
\* the costs computed from the stored pricing.
C10_PricingNotFoundIffAbsent ==
    last.op = "CalculatePrice" =>
        IF Stored(Name(last.provider), last.model)
        THEN PricedFromTable
        ELSE last.err.Type = ErrPricingNotFound

\* C10 amended: the OpenAI provider rejects the empty model with
\* InvalidParams before it looks at the table; in every other case
\* CalculatePrice fails with PricingNotFound exactly when no pricing is stored
\* for (the provider's name, model), and otherwise returns the costs computed
\* from the pricing stored at the moment of the call (prices 30000/60000
\* nano-USD with 1000/500 tokens give 0.03, 0.03, 0.06 USD).  A failed call
\* returns the zero Price.
C10_PricingAfterValidation ==
    last.op = "CalculatePrice" =>
        /\ IF Name(last.provider) = "openai" /\ last.model = ""
           THEN last.err.Type = ErrInvalidParams
           ELSE IF Stored(Name(last.provider), last.model)
           THEN PricedFromTable
           ELSE last.err.Type = ErrPricingNotFound
        /\ last.err # NoErr => last.price = ZeroPrice
        /\ (/\ last.err = NoErr
            /\ config[Name(last.provider)][last.model]
               = ModelPricing(30000, 60000, "USD")
            /\ last.inputTokens = 1000 /\ last.outputTokens = 500)
              => last.price = Price(30000000, 30000000, 60000000, "USD")

\* C10 witness: gpt-4 priced at 1000/500 tokens after SetModelPricing has
\* replaced its pricing
C10_Witness ==
    /\ last.op = "CalculatePrice"
    /\ last.err = NoErr
    /\ Name(last.provider) = "openai" /\ last.model = "gpt-4"
    /\ config["openai"]["gpt-4"] = ModelPricing(7, 9, "EUR")
    /\ last.inputTokens = 1000 /\ last.outputTokens = 500
    /\ last.price = Price(7000, 4500, 11500, "EUR")

----------------------------------------------------------------------------
(* Spec: the tracker, driven as in the tracker tests: providers are         *)
(* registered, and CountTokens, CalculatePrice and TrackUsage are called.   *)

\* The built-in providers with their default pricing, the test double of the
\* tracker tests, and a second double that supports the same model
TrackerProviders ==
    {OpenAIProvider, ClaudeProvider,
     MockProvider("mock", "mock-model", TokenCount(100, 50, 150),
                  Price(100000, 200000, 300000, "USD")),
     MockProvider("mock-2", "mock-model", TokenCount(10, 20, 30),
                  Price(1000, 2000, 3000, "USD"))}

TrackerModels ==
    {"", "gpt-4", "gpt-4-turbo", "claude-3-opus", "mock-model",
     "unsupported-model"}

TrackerParams ==
    {TokenCountParams(model, text, <<>>, <<>>, NilToolChoice, crt) :
        model \in TrackerModels,
        text \in {NilText, StringPtr("This is a test.")},
        crt \in BOOLEAN}

\* The params of the TrackUsage calls: the caller leaves CountResponseTokens
\* unset
TrackUsageParams == {params \in TrackerParams : ~params.CountResponseTokens}

TrackerTokens == {0, 1000}

TrackerResponses == {NilResponse, AccessorResponse(7)}

\* The clock: a call starts at most MaxElapsed after callParams.StartTime and
\* reaches time.Since at most MaxElapsed after it started
MaxElapsed == 1
StartTimes == {1}

RECURSIVE OrderOf(_)
\* One order in which the keys of a set may be visited
OrderOf(keys) ==
    IF keys = {} THEN <<>>
    ELSE LET k == CHOOSE k \in keys : TRUE
         IN  <<k>> \o OrderOf(keys \ {k})

\* One iteration order for each provider GetForModel(model) can return:
\* GetForModel returns the first supporter visited, and any supporter may be
\* the first one visited
ResolveOrders(reg, model) ==
    IF Supporters(reg, model) = {} THEN {OrderOf(DOMAIN reg)}
    ELSE {<<k>> \o OrderOf(DOMAIN reg \ {k}) : k \in Supporters(reg, model)}

\* tracker.RegisterProvider(p)
RegisterProvider(p) ==
    /\ last = Idle
    /\ providers' = Register(providers, p)
    /\ last' = [op |-> "RegisterProvider", provider |-> p]
    /\ UNCHANGED <<config, cache, conc>>

\* tracker.CountTokens(params)
CallCountTokens(params) ==
    /\ last = Idle
    /\ \E order \in ResolveOrders(providers, params.Model), encOK \in BOOLEAN :
        \E r \in {TrackerCountTokens(providers, order, params, cache, encOK)} :
               /\ last' = [op |-> "TrackerCountTokens", params |-> params,
                           order |-> order, encOK |-> encOK, before |-> cache,
                           tc |-> r.tc, err |-> r.err, calls |-> r.calls]
               /\ cache' = r.cache
    /\ UNCHANGED <<providers, config, conc>>

\* tracker.CalculatePrice(model, inputTokens, outputTokens)
CallCalculatePrice(model, inputTokens, outputTokens) ==
    /\ last = Idle
    /\ \E order \in ResolveOrders(providers, model) :
        \E r \in {TrackerCalculatePrice(providers, order, config, model,
                                         inputTokens, outputTokens)} :
               last' = [op |-> "TrackerCalculatePrice", model |-> model,
                        inputTokens |-> inputTokens,
                        outputTokens |-> outputTokens, order |-> order,
                        price |-> r.price, err |-> r.err, calls |-> r.calls]
    /\ UNCHANGED <<providers, config, cache, conc>>

\* tracker.TrackUsage(callParams, response), called at time entry
CallTrackUsage(callParams, response) ==
    /\ last = Idle
    /\ \E o1 \in ResolveOrders(providers, callParams.Params.Model),
          o2, o3, o4 \in ResolveOrders(providers, callParams.Model),
          e1, e2 \in BOOLEAN,
          entry \in callParams.StartTime..(callParams.StartTime + MaxElapsed) :
        \E now \in entry..(entry + MaxElapsed) :
            \E env \in {[orders |-> <<o1, o2, o3, o4>>, encOK |-> <<e1, e2>>,
                          now |-> now]} :
                \E r \in {TrackUsage(providers, config, cache, callParams,
                                     response, env)} :
                   /\ last' = [op |-> "TrackUsage", callParams |-> callParams,
                               response |-> response, env |-> env,
                               entry |-> entry, before |-> cache,
                               metrics |-> r.metrics, err |-> r.err,
                               panic |-> r.panic, calls |-> r.calls,
                               out |-> r.out]
                   /\ cache' = r.cache
    /\ UNCHANGED <<providers, config, conc>>

Next ==
    \/ \E p \in TrackerProviders : RegisterProvider(p)
    \/ \E params \in TrackerParams : CallCountTokens(params)
    \/ \E model \in TrackerModels, inputTokens \in TrackerTokens,
          outputTokens \in TrackerTokens :
          CallCalculatePrice(model, inputTokens, outputTokens)
    \/ \E model \in TrackerModels, params \in TrackUsageParams,
          startTime \in StartTimes, response \in TrackerResponses :
          CallTrackUsage(CallParams(model, params, startTime), response)
    \/ Return

Spec == Init /\ [][Next]_vars

\* The providers that can answer for a model: the registered supporters
Resolved(model) == {providers[n] : n \in Supporters(providers, model)}

\* C5: tracker.CountTokens and tracker.CalculatePrice resolve alike: an empty
\* model fails with InvalidParams and the registry is not consulted; a model
\* no registered provider supports fails with ProviderNotFound and no provider
\* is called; otherwise the call goes to a registered provider that supports
\* the model, and what that provider returns (result, error, and for
\* CountTokens its effect on the cache) is returned unchanged.
C5_ResolutionPattern ==
    /\ last.op = "TrackerCountTokens" =>
          IF last.params.Model = ""
          THEN /\ last.err.Type = ErrInvalidParams
               /\ last.tc = ZeroTokenCount
               /\ last.calls = <<>>
               /\ cache = last.before
          ELSE IF Resolved(last.params.Model) = {}
          THEN /\ last.err.Type = ErrProviderNotFound
               /\ last.tc = ZeroTokenCount
               /\ \A i \in DOMAIN last.calls : last.calls[i].fn = "GetForModel"
               /\ cache = last.before
          ELSE \E p \in Resolved(last.params.Model) :
                  \E r \in {ProviderCountTokens(p, last.params, last.before,
                                                last.encOK)} :
                      /\ last.tc = r.tc
                      /\ last.err = r.err
                      /\ cache = r.cache
                      /\ last.calls[Len(last.calls)]
                         = Call("CountTokens", Name(p), last.params.Model,
                                last.params.CountResponseTokens)
    /\ last.op = "TrackerCalculatePrice" =>
          IF last.model = ""
          THEN /\ last.err.Type = ErrInvalidParams
               /\ last.price = ZeroPrice
               /\ last.calls = <<>>
          ELSE IF Resolved(last.model) = {}
          THEN /\ last.err.Type = ErrProviderNotFound
               /\ last.price = ZeroPrice
               /\ \A i \in DOMAIN last.calls : last.calls[i].fn = "GetForModel"
          ELSE \E p \in Resolved(last.model) :
                  \E r \in {ProviderCalculatePrice(p, config, last.model,
                                                   last.inputTokens,
                                                   last.outputTokens)} :
                      /\ last.price = r.price
                      /\ last.err = r.err
                      /\ last.calls[Len(last.calls)]
                         = Call("CalculatePrice", Name(p), last.model, FALSE)

\* C5 witness: with three providers registered, CountTokens for a Claude model
\* is delegated and the provider's own error comes back
C5_Witness ==
    /\ last.op = "TrackerCountTokens"
    /\ Cardinality(DOMAIN providers) >= 3
    /\ last.params.Model = "claude-3-opus"
    /\ last.err = NewError(ErrInvalidParams,
                           "either text or messages must be provided", NoErr)
    /\ Len(last.calls) = 2

\* The steps of the TrackUsage call recorded in last, as the tracker's own
\* operations compute them
TrackedInput ==
    TrackerCountTokens(providers, last.env.orders[1], last.callParams.Params,
                       last.before, last.env.encOK[1])

TrackedPrice ==
    TrackerCalculatePrice(providers, last.env.orders[3], config,
                          last.callParams.Model, TrackedInput.tc.InputTokens,
                          last.out)

\* C7: TrackUsage returns either fully populated metrics and no error, or an
\* error and the zero UsageMetrics.  An error of the input-token count is
\* returned unchanged and nothing is called after it; otherwise an error of the
\* pricing is returned unchanged.
C7_AllOrNothing ==
    last.op = "TrackUsage" =>
        /\ ~last.panic
        /\ last.err # NoErr => last.metrics = ZeroUsageMetrics
        /\ TrackedInput.err # NoErr =>
              /\ last.err = TrackedInput.err
              /\ last.calls = TrackedInput.calls
              /\ cache = TrackedInput.cache
        /\ TrackedInput.err = NoErr => last.err = TrackedPrice.err
        /\ last.err = NoErr =>
              /\ last.metrics.TokenCount
                 = TokenCount(TrackedInput.tc.InputTokens, last.out,
                              TrackedInput.tc.InputTokens + last.out)
              /\ last.metrics.Price = TrackedPrice.price
              /\ last.metrics.Model = last.callParams.Model
              /\ \E p \in Resolved(last.callParams.Model) :
                    last.metrics.Provider = Name(p)
              /\ last.metrics.Duration
                 = last.env.now - last.callParams.StartTime
              /\ last.metrics.Timestamp = last.env.now

\* C7 witness: the input tokens are counted and the output tokens estimated,
\* then the pricing of the model is missing
C7_Witness ==
    /\ last.op = "TrackUsage"
    /\ last.callParams.Model = "gpt-4-turbo"
    /\ last.err.Type = ErrPricingNotFound
    /\ last.metrics = ZeroUsageMetrics
    /\ last.out > 0
    /\ Len(last.calls) = 6

C9_EndToEnd ==
    (/\ last.op = "TrackUsage"
     /\ last.callParams.Model = last.callParams.Params.Model
     /\ last.response.tag # "accessor"
     /\ Cardinality(Resolved(last.callParams.Model)) = 1)
        => \A p \in Resolved(last.callParams.Model) :
              p.kind = "mock" =>
                  /\ last.err = NoErr
                  /\ last.metrics.TokenCount = p.tokenCount
                  /\ last.metrics.Price = p.price
                  /\ last.metrics.Model = last.callParams.Model
                  /\ last.metrics.Provider = Name(p)
                  /\ last.metrics.Duration
                     >= last.entry - last.callParams.StartTime

\* C9 witness: the scenario of TestDefaultTokenTracker_TrackUsage, with the
\* built-in providers registered beside the test double and the call made
\* one time unit after StartTime
C9_Witness ==
    /\ last.op = "TrackUsage"
    /\ DOMAIN providers = {"openai", "anthropic", "mock"}
    /\ last.callParams.Model = "mock-model"
    /\ last.callParams.Params.Model = "mock-model"
    /\ last.response = NilResponse
    /\ last.entry = last.callParams.StartTime + 1
    /\ last.err = NoErr
    /\ last.metrics.TokenCount = TokenCount(100, 50, 150)
    /\ last.metrics.Price = Price(100000, 200000, 300000, "USD")
    /\ last.metrics.Provider = "mock"
    /\ last.metrics.Duration >= 1

----------------------------------------------------------------------------
(* SpecConc: the goroutines of TestProviderRegistry_ThreadSafety.  Each     *)
(* registrar calls Register once; each reader calls Get, GetForModel and    *)
(* All.  A call is three steps: take the lock, use the map, release the     *)
(* lock (the deferred unlock).                                              *)

\* The registrar whose provider reader j asks for
Target(j) == ((j - 1) % NumRegistrars) + 1

\* Register, r.mu.Lock()
RegisterLock(i) ==
    /\ registrar[i] = "start"
    /\ CanLock(mu)
    /\ mu' = Lock(mu)
    /\ registrar' = [registrar EXCEPT ![i] = "write"]
    /\ UNCHANGED <<providers, config, cache, reader, last, background>>

\* Register, r.providers[provider.Name()] = provider
RegisterWrite(i) ==
    /\ registrar[i] = "write"
    /\ providers' = Register(providers, ThreadProvider(i))
    /\ registrar' = [registrar EXCEPT ![i] = "unlock"]
    /\ UNCHANGED <<config, cache, mu, reader, last, background>>

\* Register, the deferred r.mu.Unlock()
RegisterUnlock(i) ==
    /\ registrar[i] = "unlock"
    /\ mu' = Unlock(mu)
    /\ registrar' = [registrar EXCEPT ![i] = "done"]
    /\ UNCHANGED <<providers, config, cache, reader, last, background>>

\* Get, GetForModel, All: r.mu.RLock()
ReadLock(j) ==
    /\ reader[j].call # "done"
    /\ reader[j].pc = "rlock"
    /\ CanRLock(mu)
    /\ mu' = RLock(mu)
    /\ reader' = [reader EXCEPT
                     ![j].pc = "read",
                     ![j].returned = {i \in Registrars : registrar[i] = "done"},
                     ![j].result = NoResult]
    /\ UNCHANGED <<providers, config, cache, registrar, last, background>>

\* A Register is between taking the lock and finishing its map assignment
Writing == \E i \in Registrars : registrar[i] = "write"

\* What the call of reader j returns when the map is visited in an order
ReadResult(call, j, order) ==
    CASE call = "Get" ->
           LET got == Get(providers, Name(ThreadProvider(Target(j))))
           IN  [provider |-> got.provider, exists |-> got.exists,
                all |-> <<>>, fatal |-> FALSE]
      [] call = "GetForModel" ->
           LET got == GetForModel(providers, order,
                                  "model-" \o ToString(Target(j)))
           IN  [provider |-> got.provider, exists |-> got.exists,
                all |-> <<>>, fatal |-> FALSE]
      [] OTHER -> [NoResult EXCEPT !.all = All(providers, order)]

\* Get, GetForModel, All: the body, reading the map.  Reading a Go map while
\* it is written is a data race: the read may go through, or the runtime
\* stops the program (fatal error: concurrent map read and map write).
ReadMap(j) ==
    /\ reader[j].pc = "read"
    /\ \E order \in Orders(providers),
          fatal \in (IF Writing THEN BOOLEAN ELSE {FALSE}) :
          reader' = [reader EXCEPT
                        ![j].pc = "runlock",
                        ![j].result =
                            IF fatal THEN [NoResult EXCEPT !.fatal = TRUE]
                            ELSE ReadResult(reader[j].call, j, order)]
    /\ UNCHANGED <<providers, config, cache, mu, registrar, last, background>>

\* Get, GetForModel, All: the deferred r.mu.RUnlock(); the next call follows
ReadUnlock(j) ==
    /\ reader[j].pc = "runlock"
    /\ mu' = RUnlock(mu)
    /\ reader' = [reader EXCEPT
                     ![j].pc = "rlock",
                     ![j].call = CASE @ = "Get" -> "GetForModel"
                                   [] @ = "GetForModel" -> "All"
                                   [] OTHER -> "done"]
    /\ UNCHANGED <<providers, config, cache, registrar, last, background>>

NextConc ==
    \/ \E i \in Registrars :
          RegisterLock(i) \/ RegisterWrite(i) \/ RegisterUnlock(i)
    \/ \E j \in Readers : ReadLock(j) \/ ReadMap(j) \/ ReadUnlock(j)

SpecConc == Init /\ [][NextConc]_vars

\* A registrar is inside Register's critical section
HoldsWrite(i) == registrar[i] \in {"write", "unlock"}

\* A reader is inside the critical section of Get, GetForModel or All
HoldsRead(j) == reader[j].pc \in {"read", "runlock"}

\* The providers whose map assignment is finished
Registered ==
    {ThreadProvider(i) : i \in {k \in Registrars : registrar[k] \in {"unlock", "done"}}}

\* Reader j holds the result of the call
HasResult(j, call) ==
    \/ reader[j].call = call /\ reader[j].pc = "runlock"
    \/ call = "All" /\ reader[j].call = "done"

\* C4: while a Register is in its critical section no other Register and no
\* reader is in one (readers may be in theirs together), and the lock counts
\* its holders; no read hits the map while it is written; Get and GetForModel
\* find only a fully registered provider, the one asked for, and find it once
\* its registration has returned; every All result is a snapshot: it holds,
\* once each, only fully registered providers and all those whose
\* registration had returned when the call began, so once all N
\* registrations have returned All returns exactly the N providers.
C4_ConcurrentRegistry ==
    /\ \A i \in Registrars :
          HoldsWrite(i) => /\ \A k \in Registrars \ {i} : ~HoldsWrite(k)
                           /\ \A j \in Readers : ~HoldsRead(j)
    /\ mu.writer = (\E i \in Registrars : HoldsWrite(i))
    /\ mu.readers = Cardinality({j \in Readers : HoldsRead(j)})
    /\ \A j \in Readers :
          /\ ~reader[j].result.fatal
          /\ \A call \in {"Get", "GetForModel"} :
                HasResult(j, call) =>
                    /\ reader[j].result.exists =>
                          /\ reader[j].result.provider = ThreadProvider(Target(j))
                          /\ reader[j].result.provider \in Registered
                    /\ Target(j) \in reader[j].returned => reader[j].result.exists
          /\ HasResult(j, "All") =>
                LET all == reader[j].result.all
                    found == {all[k] : k \in DOMAIN all}
                IN  /\ found \subseteq Registered
                    /\ Cardinality(found) = Len(all)
                    /\ {ThreadProvider(i) : i \in reader[j].returned}
                          \subseteq found
                    /\ reader[j].returned = Registrars =>
                          /\ Len(all) = NumRegistrars
                          /\ found = {ThreadProvider(i) : i \in Registrars}

\* C4 witness: two readers are in their critical sections together, one of
\* them in an All call that began after every registration had returned and
\* that holds all the providers
C4_Witness ==
    \E j1, j2 \in Readers :
        /\ j1 # j2
        /\ HoldsRead(j2)
        /\ reader[j1].call = "All" /\ reader[j1].pc = "runlock"
        /\ reader[j1].returned = Registrars
        /\ Len(reader[j1].result.all) = NumRegistrars

----------------------------------------------------------------------------
(* SpecUpdate: one goroutine runs Provider.UpdatePricing while the caller   *)
(* reads prices.  UpdatePricing is a sequence of SetModelPricing calls;     *)
(* each of them, and each GetModelPricing, runs under Config.mu and is one  *)
(* step.  ClaudeProvider.UpdatePricing holds the provider's own mutex, which *)
(* ClaudeProvider.CalculatePrice and Config.GetModelPricing do not take.    *)
(* The caller replaces pricings only while no update is in progress, so     *)
(* that a mixed table can only be the work of the update.                   *)

\* The pricings a caller installed before the update
CustomPricings ==
    {<<"openai", "gpt-3.5-turbo">>, <<"openai", "gpt-4">>,
     <<"anthropic", "claude-3-opus">>}

ObservedModels == {"gpt-3.5-turbo", "gpt-4", "gpt-4-turbo", "claude-3-opus"}

ObservedTokens == {1000}

\* go p.UpdatePricing(): the call begins
BeginUpdatePricing(p) ==
    /\ updater.pc = 0
    /\ updater' = [pc |-> 1, provider |-> p, before |-> config]
    /\ UNCHANGED <<sched, tracking, auto,
                   providers, config, cache, mu, registrar, reader, cacheMu,
                   cleaner, last>>

\* the next p.config.SetModelPricing(...) of the call in progress
UpdatePricingStep ==
    /\ updater.pc \in 1..Len(UpdatePricingWrites(updater.provider))
    /\ LET w == UpdatePricingWrites(updater.provider)[updater.pc]
       IN  config' = SetModelPricing(config, Name(updater.provider),
                                     w.model, w.pricing)
    /\ updater' = [updater EXCEPT !.pc = @ + 1]
    /\ UNCHANGED <<sched, tracking, auto,
                   providers, cache, mu, registrar, reader, cacheMu, cleaner,
                   last>>

\* return nil: the call ends
EndUpdatePricing ==
    /\ updater.pc = Len(UpdatePricingWrites(updater.provider)) + 1
    /\ updater' = NoUpdater
    /\ UNCHANGED <<sched, tracking, auto,
                   providers, config, cache, mu, registrar, reader, cacheMu,
                   cleaner, last>>

NextUpdate ==
    \/ \E pm \in CustomPricings, pricing \in SetPricings :
          updater.pc = 0 /\ DoSetModelPricing(pm[1], pm[2], pricing)
    \/ \E p \in BuiltinProviders : BeginUpdatePricing(p)
    \/ UpdatePricingStep
    \/ EndUpdatePricing
    \/ \E p \in BuiltinProviders, model \in ObservedModels :
          DoGetModelPricing(Name(p), model)
    \/ \E p \in BuiltinProviders, model \in ObservedModels,
          tokens \in ObservedTokens : CalculatePrice(p, model, tokens, tokens)
    \/ Return

SpecUpdate == Init /\ [][NextUpdate]_vars

\* The models UpdatePricing of p writes, and the pricing it gives each
TrackedModels(p) ==
    {UpdatePricingWrites(p)[i].model : i \in 1..Len(UpdatePricingWrites(p))}

Refreshed(p, model) ==
    LET i == CHOOSE i \in 1..Len(UpdatePricingWrites(p)) :
                 UpdatePricingWrites(p)[i].model = model
    IN  [pricing |-> UpdatePricingWrites(p)[i].pricing, exists |-> TRUE]

\* C11: UpdatePricing never partially applies: in every state a concurrent
\* GetModelPricing or CalculatePrice can observe while a call is in progress,
\* either every tracked model of the provider carries the refreshed pricing
\* or every tracked model still carries the pricing it had when the call
\* began.
C11_UpdatePricingAllOrNone ==
    updater.pc > 0 =>
        LET p == updater.provider
        IN  \/ \A m \in TrackedModels(p) :
                  GetModelPricing(config, Name(p), m) = Refreshed(p, m)
            \/ \A m \in TrackedModels(p) :
                  GetModelPricing(config, Name(p), m)
                  = GetModelPricing(updater.before, Name(p), m)

----------------------------------------------------------------------------
(* The tracker's other operations: RegisterSDKClient, UpdateAllPricing and  *)
(* TrackTokenUsage.  Provider and SDKClientWrapper are interfaces: the      *)
(* tracker must handle any implementation, and an implementation may return *)
(* an error where the ones of this repository return nil.                   *)

\* A plain Go error (errors.New(message)), as an implementation may return
PlainError(message) ==
    [Type |-> "error", Message |-> message, Cause |-> [Type |-> "nil"]]

\* A Provider whose UpdatePricing fails with updateErr and writes nothing
FailingProvider(name, updateErr) ==
    [kind |-> "failing", name |-> name, supportedModels |-> {},
     tokenCount |-> ZeroTokenCount, price |-> ZeroPrice,
     sdkClient |-> NilClient, updateErr |-> updateErr]

\* An SDKClientWrapper: its provider name, the client it wraps and what its
\* UpdateProviderPricing returns
SDKClientWrapper(providerName, client, updateErr) ==
    [providerName |-> providerName, client |-> client, updateErr |-> updateErr]

\* Provider.SetSDKClient: the provider after the call.  ClaudeProvider stores
\* the client; the other implementations ignore it
SetSDKClient(p, client) ==
    IF p.kind = "claude" THEN [p EXCEPT !.sdkClient = client] ELSE p

\* The error Provider.UpdatePricing returns
UpdatePricingError(p) == IF p.kind = "failing" THEN p.updateErr ELSE NoErr

\* Mutant of TrackerRegisterSDKClient: the pricing is updated before the
\* client is handed to the provider, and a failed update leaves it unset
RegisterSDKClientUpdateFirst(reg, client) ==
    LET found == Get(reg, client.providerName)
        lookup == Call("Get", client.providerName, "", FALSE)
        update == Call("UpdateProviderPricing", client.providerName, "", FALSE)
        set == Call("SetSDKClient", client.providerName, "", FALSE)
    IN  IF ~found.exists
        THEN [reg |-> reg, calls |-> <<lookup>>,
              err |-> NewError(ErrProviderNotFound,
                               "no provider found with name: "
                               \o client.providerName, NoErr)]
        ELSE IF client.updateErr # NoErr
        THEN [reg |-> reg, calls |-> <<lookup, update>>,
              err |-> NewError(ErrPricingUpdateFailed,
                               "failed to update pricing information",
                               client.updateErr)]
        ELSE [reg |-> [reg EXCEPT ![client.providerName] =
                                     SetSDKClient(@, client.client)],
              calls |-> <<lookup, update, set>>, err |-> NoErr]

\* DefaultTokenTracker.RegisterSDKClient: [reg, err, calls]
TrackerRegisterSDKClient(reg, client) ==
    LET found == Get(reg, client.providerName)
        lookup == Call("Get", client.providerName, "", FALSE)
    IN  IF ~found.exists
        THEN [reg |-> reg, calls |-> <<lookup>>,
              err |-> NewError(ErrProviderNotFound,
                               "no provider found with name: "
                               \o client.providerName, NoErr)]
        ELSE [reg |-> [reg EXCEPT ![client.providerName] =
                                     SetSDKClient(found.provider, client.client)],
              calls |-> <<lookup,
                          Call("SetSDKClient", Name(found.provider), "", FALSE),
                          Call("UpdateProviderPricing", client.providerName,
                               "", FALSE)>>,
              err |-> IF client.updateErr # NoErr
                      THEN NewError(ErrPricingUpdateFailed,
                                    "failed to update pricing information",
                                    client.updateErr)
                      ELSE NoErr]

RECURSIVE UpdateEachFirstError(_, _, _, _)
\* Mutant of UpdateEach: the first error is retained, not the last
UpdateEachFirstError(ps, cfg, lastErr, calls) ==
    IF ps = <<>> THEN [cfg |-> cfg, lastErr |-> lastErr, calls |-> calls]
    ELSE LET err == UpdatePricingError(Head(ps))
         IN  UpdateEachFirstError(Tail(ps), ProviderUpdatePricing(Head(ps), cfg),
                        IF err # NoErr /\ lastErr = NoErr THEN err ELSE lastErr,
                        Append(calls, Call("UpdatePricing", Name(Head(ps)),
                                           "", FALSE)))

RECURSIVE UpdateEach(_, _, _, _)
\* The loop of UpdateAllPricing over the slice ps: [cfg, lastErr, calls]
UpdateEach(ps, cfg, lastErr, calls) ==
    IF ps = <<>> THEN [cfg |-> cfg, lastErr |-> lastErr, calls |-> calls]
    ELSE LET err == UpdatePricingError(Head(ps))
         IN  UpdateEach(Tail(ps), ProviderUpdatePricing(Head(ps), cfg),
                        IF err # NoErr THEN err ELSE lastErr,
                        Append(calls, Call("UpdatePricing", Name(Head(ps)),
                                           "", FALSE)))

\* DefaultTokenTracker.UpdateAllPricing: [cfg, err, calls]
TrackerUpdateAllPricing(reg, order, cfg) ==
    LET r == UpdateEach(All(reg, order), cfg, NoErr,
                        <<Call("All", "", "", FALSE)>>)
    IN  [cfg |-> r.cfg, calls |-> r.calls,
         err |-> IF r.lastErr # NoErr
                 THEN NewError(ErrPricingUpdateFailed,
                               "failed to update pricing for one or more providers",
                               r.lastErr)
                 ELSE NoErr]

\* Mutant of TrackerTrackTokenUsage: an unregistered name never fails; the
\* usage is then extracted as by a provider that reads no response
TrackTokenUsageLenient(reg, providerName, response) ==
    LET found == Get(reg, providerName)
        lookup == Call("Get", providerName, "", FALSE)
    IN  IF ~found.exists
        THEN [tc |-> ZeroTokenCount, err |-> NoErr, calls |-> <<lookup>>]
        ELSE LET r == ProviderExtractTokenUsage(found.provider, response)
             IN  [tc |-> r.tc, err |-> r.err,
                  calls |-> <<lookup,
                              Call("ExtractTokenUsageFromResponse",
                                   Name(found.provider), "", FALSE)>>]

\* DefaultTokenTracker.TrackTokenUsage: [tc, err, calls]
TrackerTrackTokenUsage(reg, providerName, response) ==
    LET found == Get(reg, providerName)
        lookup == Call("Get", providerName, "", FALSE)
    IN  IF ~found.exists
        THEN [tc |-> ZeroTokenCount, calls |-> <<lookup>>,
              err |-> NewError(ErrProviderNotFound,
                               "no provider found with name: " \o providerName,
                               NoErr)]
        ELSE LET r == ProviderExtractTokenUsage(found.provider, response)
             IN  [tc |-> r.tc, err |-> r.err,
                  calls |-> <<lookup,
                              Call("ExtractTokenUsageFromResponse",
                                   Name(found.provider), "", FALSE)>>]

----------------------------------------------------------------------------
(* SpecAdmin: providers are registered, SDK clients are attached, all       *)
(* pricing is refreshed and usage is read off responses by provider name.   *)

\* Two built-in providers and two providers whose UpdatePricing fails
AdminProviders ==
    {OpenAIProvider, ClaudeProvider,
     FailingProvider("flaky-1", PlainError("pricing feed unavailable")),
     FailingProvider("flaky-2", PlainError("pricing feed timed out"))}

\* Wrappers for a registered name and for names nobody registers; "OpenAI"
\* differs from the provider name "openai" in case only
AdminNames == {"openai", "anthropic", "OpenAI", "unknown"}

SDKClients ==
    {SDKClientWrapper(name, "sdk-client", updateErr) :
        name \in AdminNames,
        updateErr \in {NoErr, PlainError("cannot fetch pricing")}}

AdminResponses ==
    {NilResponse,
     MapResponse(UsageMap([input_tokens |-> JSONNumber(200),
                           output_tokens |-> JSONNumber(100)])),
     MapResponse(UsageMap([prompt_tokens |-> JSONNumber(200),
                           completion_tokens |-> JSONNumber(100),
                           total_tokens |-> JSONNumber(300)]))}

\* tracker.RegisterSDKClient(client)
CallRegisterSDKClient(client) ==
    /\ last = Idle
    /\ \E r \in {TrackerRegisterSDKClient(providers, client)} :
          /\ providers' = r.reg
          /\ last' = [op |-> "RegisterSDKClient", client |-> client,
                      before |-> providers, err |-> r.err, calls |-> r.calls]
    /\ UNCHANGED <<config, cache, conc>>

\* tracker.UpdateAllPricing(), registry.All() visiting the map in some order
CallUpdateAllPricing ==
    /\ last = Idle
    /\ \E order \in Orders(providers) :
        \E r \in {TrackerUpdateAllPricing(providers, order, config)} :
          /\ config' = r.cfg
          /\ last' = [op |-> "UpdateAllPricing", order |-> order,
                      before |-> config, err |-> r.err, calls |-> r.calls]
    /\ UNCHANGED <<providers, cache, conc>>

\* tracker.TrackTokenUsage(providerName, response)
CallTrackTokenUsage(providerName, response) ==
    /\ last = Idle
    /\ \E r \in {TrackerTrackTokenUsage(providers, providerName, response)} :
          last' = [op |-> "TrackTokenUsage", providerName |-> providerName,
                   response |-> response, before |-> providers,
                   tc |-> r.tc, err |-> r.err, calls |-> r.calls]
    /\ UNCHANGED <<providers, config, cache, conc>>

NextAdmin ==
    \/ \E p \in AdminProviders : RegisterProvider(p)
    \/ \E client \in SDKClients : CallRegisterSDKClient(client)
    \/ CallUpdateAllPricing
    \/ \E providerName \in AdminNames, response \in AdminResponses :
          CallTrackTokenUsage(providerName, response)
    \/ Return

SpecAdmin == Init /\ [][NextAdmin]_vars

\* The positions in the iteration order of UpdateAllPricing at which the
\* provider's UpdatePricing failed
FailedAt ==
    {i \in 1..Len(last.order) :
        UpdatePricingError(providers[last.order[i]]) # NoErr}

\* The UpdatePricing calls UpdateAllPricing made, in order
UpdateCalls == SelectSeq(last.calls, LAMBDA c : c.fn = "UpdatePricing")

\* C12: UpdateAllPricing calls UpdatePricing exactly once on every provider
\* registered at the time of the call and continues after a failure (the
\* providers visited after a failing one are called and their pricing is
\* refreshed); it returns nil iff every call succeeded, and otherwise a
\* PricingUpdateFailed error whose cause is the error of the last failing
\* provider in iteration order.
C12_UpdateAllPricing ==
    last.op = "UpdateAllPricing" =>
        /\ Len(UpdateCalls) = Cardinality(DOMAIN providers)
        /\ \A i \in 1..Len(UpdateCalls) :
              UpdateCalls[i].provider = last.order[i]
        /\ \A n \in DOMAIN providers :
              Cardinality({i \in 1..Len(UpdateCalls) :
                              UpdateCalls[i].provider = n}) = 1
        /\ \A n \in DOMAIN providers : \A m \in TrackedModels(providers[n]) :
              GetModelPricing(config, n, m) = Refreshed(providers[n], m)
        /\ (last.err = NoErr) <=> (FailedAt = {})
        /\ FailedAt # {} =>
              LET i == CHOOSE i \in FailedAt : \A j \in FailedAt : j <= i
              IN  /\ last.err.Type = ErrPricingUpdateFailed
                  /\ last.err.Cause = UpdatePricingError(providers[last.order[i]])

\* C12 witness: two providers fail, flaky-2 after flaky-1, and OpenAI, visited
\* after both, has its pricing refreshed; the error wraps flaky-2's
C12_Witness ==
    /\ last.op = "UpdateAllPricing"
    /\ last.order = <<"flaky-1", "flaky-2", "openai">>
    /\ last.err.Type = ErrPricingUpdateFailed
    /\ last.err.Cause = PlainError("pricing feed timed out")
    /\ "gpt-4-turbo" \notin DOMAIN last.before["openai"]
    /\ "gpt-4-turbo" \in DOMAIN config["openai"]

\* C13: RegisterSDKClient fails with ProviderNotFound, calling neither
\* SetSDKClient nor UpdateProviderPricing, when no provider is registered
\* under client.GetProviderName(); otherwise it calls
\* provider.SetSDKClient(client.GetClient()) first and
\* client.UpdateProviderPricing() second, returns nil when the pricing update
\* succeeds and PricingUpdateFailed wrapping the cause when it fails.
C13_RegisterSDKClient ==
    last.op = "RegisterSDKClient" =>
        LET name == last.client.providerName
            made == [i \in 1..Len(last.calls) |-> last.calls[i].fn]
        IN  IF name \notin DOMAIN last.before
            THEN /\ last.err.Type = ErrProviderNotFound
                 /\ made = <<"Get">>
                 /\ providers = last.before
            ELSE /\ made = <<"Get", "SetSDKClient", "UpdateProviderPricing">>
                 /\ last.calls[2].provider = name
                 /\ providers =
                       [last.before EXCEPT ![name] =
                           SetSDKClient(@, last.client.client)]
                 /\ last.before[name].kind = "claude" =>
                       providers[name].sdkClient = last.client.client
                 /\ last.client.updateErr = NoErr => last.err = NoErr
                 /\ last.client.updateErr # NoErr =>
                       /\ last.err.Type = ErrPricingUpdateFailed
                       /\ last.err.Cause = last.client.updateErr

\* C13 witness: a wrapper for the registered Claude provider whose pricing
\* update fails; the provider holds the client all the same
C13_Witness ==
    /\ last.op = "RegisterSDKClient"
    /\ last.client.providerName = "anthropic"
    /\ "anthropic" \in DOMAIN last.before
    /\ last.before["anthropic"].sdkClient = NilClient
    /\ providers["anthropic"].sdkClient = "sdk-client"
    /\ last.err.Type = ErrPricingUpdateFailed
    /\ last.err.Cause = PlainError("cannot fetch pricing")

\* C14: TrackTokenUsage(name, response) fails with ProviderNotFound iff no
\* provider is registered under exactly that name; otherwise it returns what
\* that provider's ExtractTokenUsageFromResponse returns, unchanged; it asks
\* the registry by name only (no GetForModel) and leaves the registry as it
\* was.
C14_TrackTokenUsage ==
    last.op = "TrackTokenUsage" =>
        LET name == last.providerName
            made == [i \in 1..Len(last.calls) |-> last.calls[i].fn]
        IN  /\ providers = last.before
            /\ (last.err.Type = ErrProviderNotFound)
                  <=> (name \notin DOMAIN providers)
            /\ name \notin DOMAIN providers =>
                  last.tc = ZeroTokenCount /\ made = <<"Get">>
            /\ name \in DOMAIN providers =>
                  /\ made = <<"Get", "ExtractTokenUsageFromResponse">>
                  /\ last.calls[2].provider = name
                  /\ [tc |-> last.tc, err |-> last.err]
                     = ProviderExtractTokenUsage(providers[name], last.response)

\* C14 witness: Claude's usage read through the tracker while OpenAI is
\* registered as well
C14_Witness ==
    /\ last.op = "TrackTokenUsage"
    /\ last.providerName = "anthropic"
    /\ last.err = NoErr
    /\ last.tc = TokenCount(100, 50, 150)
    /\ {"openai", "anthropic"} \subseteq DOMAIN providers

----------------------------------------------------------------------------
(* Claims on ExtractTokenUsageFromResponse, checked under SpecExtract       *)

\* The names the vendor gives the input count and the output count
CountFields(p) ==
    IF p.kind = "claude" THEN <<"input_tokens", "output_tokens">>
    ELSE <<"prompt_tokens", "completion_tokens">>

\* The response is a string-keyed map that holds a usage object
HasUsage(response) == response.tag = "map" /\ response.usage.tag = "map"

C16_TwoCountsSuffice ==
    (/\ last.op = "ExtractTokenUsage"
     /\ last.provider \in {ClaudeProvider, GeminiProvider}
     /\ HasUsage(last.response)
     /\ IsFloat(last.response.usage.fields, CountFields(last.provider)[1])
     /\ IsFloat(last.response.usage.fields, CountFields(last.provider)[2]))
    => LET usage == last.response.usage.fields
           in == IntOfFloat(usage[CountFields(last.provider)[1]].h)
           out == IntOfFloat(usage[CountFields(last.provider)[2]].h)
       IN  /\ last.err = NoErr
           /\ last.tc = TokenCount(in, out, in + out)

\* C17: for every built-in provider, GetModelInfo(model) fails with
\* InvalidModel when the provider does not recognize the model (SupportsModel
\* is false), and for a recognized model returns metadata with a positive
\* context window and a non-empty description.
C17_GetModelInfo ==
    last.op = "GetModelInfo" =>
        IF SupportsModel(last.provider, last.model)
        THEN /\ last.err = NoErr
             /\ {"contextWindow", "description"} \subseteq DOMAIN last.info
             /\ last.info.contextWindow > 0
             /\ last.info.description # ""
        ELSE last.err.Type = ErrInvalidModel

----------------------------------------------------------------------------
(* Claims on the pricing table, checked under SpecPricing                   *)

\* Every (provider, model) pair of a table, and the pairs the calls name
PricingPairs(cfg) ==
    {<<pr, m>> : pr \in (DOMAIN cfg) \cup SetProviders,
                 m \in UNION {DOMAIN cfg[pr] : pr \in DOMAIN cfg}
                       \cup SetModels \cup PricingModels}

\* C20: SetModelPricing(p, m, x) replaces the entry wholesale: afterwards
\* GetModelPricing(p, m) returns (x, true), the provider entry being created
\* when p was unknown, and the pricing of every other (provider, model) pair
\* is what it was.  GetModelPricing returns not-found (and the zero pricing)
\* for an unknown provider or an unknown model, the stored pricing otherwise,
\* and never modifies the table.
C20_SetGetModelPricing ==
    /\ last.op = "SetModelPricing" =>
          /\ GetModelPricing(config, last.provider, last.model)
             = [pricing |-> last.pricing, exists |-> TRUE]
          /\ \A pm \in PricingPairs(config) \cup PricingPairs(last.before) :
                pm # <<last.provider, last.model>> =>
                   GetModelPricing(config, pm[1], pm[2])
                   = GetModelPricing(last.before, pm[1], pm[2])
    /\ last.op = "GetModelPricing" =>
          /\ config = last.before
          /\ last.result.exists <=> Stored(last.provider, last.model)
          /\ ~last.result.exists => last.result.pricing = ZeroModelPricing
          /\ last.result.exists =>
                last.result.pricing = config[last.provider][last.model]

\* C20 witness: a pricing set for a provider the table did not know, the
\* default entries standing beside it
C20_Witness ==
    /\ last.op = "SetModelPricing"
    /\ last.provider = "custom" /\ last.model = "gpt-4"
    /\ "custom" \notin DOMAIN last.before
    /\ config["custom"]["gpt-4"] = ModelPricing(7, 9, "EUR")
    /\ config["openai"]["gpt-4"] = ModelPricing(30000, 60000, "USD")

----------------------------------------------------------------------------
(* SpecCache: the process-wide token cache.  The caller gets and sets       *)
(* counts while one goroutine runs CleanupCache.  GetCachedTokenCount and   *)
(* SetCachedTokenCount hold globalTokenCache.mu for their whole body, one   *)
(* map access: each is one step, taken when the lock can be had.            *)
(* CleanupCache takes the lock, runs its body and releases the lock in      *)
(* three steps.                                                             *)

\* A text of 101 bytes: fifty bytes of filler, one byte, fifty bytes of filler
Filler == "0123456789012345678901234567890123456789012345678901234567890123456789"

LongText(middle) ==
    SubSeq(Filler, 1, 50) \o middle \o SubSeq(Filler, 1, 50)

\* The (provider, model, text) triples the caller uses: a short text, two long
\* texts that differ in the middle byte, and names that contain the separator
CacheTriples ==
    {<<"openai", "gpt-4", "Hello, world!">>,
     <<"openai", "gpt-4", LongText("a")>>,
     <<"openai", "gpt-4", LongText("b")>>,
     <<"anthropic", "claude-3-haiku", "Hello, world!">>,
     <<"azure", "openai:gpt-4", "Hello, world!">>,
     <<"azure:openai", "gpt-4", "Hello, world!">>}

CachedCounts == {3, 4}

MaxSizes == {0, 1, 2}

\* GetCachedTokenCount(provider, model, text)
DoGetCachedTokenCount(provider, model, text) ==
    /\ last = Idle
    /\ CanRLock(cacheMu)
    /\ last' = [op |-> "GetCachedTokenCount", provider |-> provider,
                model |-> model, text |-> text, before |-> cache,
                during |-> cleaner.pc,
                result |-> GetCachedTokenCount(cache, provider, model, text)]
    /\ UNCHANGED <<providers, config, cache, conc>>

\* SetCachedTokenCount(provider, model, text, count)
DoSetCachedTokenCount(provider, model, text, count) ==
    /\ last = Idle
    /\ CanLock(cacheMu)
    /\ cache' = SetCachedTokenCount(cache, provider, model, text, count)
    /\ last' = [op |-> "SetCachedTokenCount", provider |-> provider,
                model |-> model, text |-> text, count |-> count,
                before |-> cache, during |-> cleaner.pc]
    /\ UNCHANGED <<providers, config, conc>>

\* go CleanupCache(maxSize): globalTokenCache.mu.Lock()
CleanupLock(maxSize) ==
    /\ cleaner.pc = "idle"
    /\ CanLock(cacheMu)
    /\ cacheMu' = Lock(cacheMu)
    /\ cleaner' = [pc |-> "body", maxSize |-> maxSize, before |-> cache]
    /\ UNCHANGED <<sched, tracking, auto,
                   providers, config, cache, mu, registrar, reader, updater,
                   last>>

\* the body of CleanupCache, under the lock
CleanupBody ==
    /\ cleaner.pc = "body"
    /\ cache' = CleanupCache(cache, cleaner.maxSize)
    /\ cleaner' = [cleaner EXCEPT !.pc = "unlock"]
    /\ UNCHANGED <<sched, tracking, auto,
                   providers, config, mu, registrar, reader, updater, cacheMu,
                   last>>

\* the deferred globalTokenCache.mu.Unlock(); CleanupCache returns
CleanupUnlock ==
    /\ cleaner.pc = "unlock"
    /\ cacheMu' = Unlock(cacheMu)
    /\ cleaner' = NoCleaner
    /\ UNCHANGED <<sched, tracking, auto,
                   providers, config, cache, mu, registrar, reader, updater,
                   last>>

NextCache ==
    \/ \E t \in CacheTriples : DoGetCachedTokenCount(t[1], t[2], t[3])
    \/ \E t \in CacheTriples, count \in CachedCounts :
          DoSetCachedTokenCount(t[1], t[2], t[3], count)
    \/ \E maxSize \in MaxSizes : CleanupLock(maxSize)
    \/ CleanupBody
    \/ CleanupUnlock
    \/ Return

SpecCache == Init /\ [][NextCache]_vars

\* C18: the cache is keyed by the triple (provider, model, text).  A Set of
\* (p, m, t) makes Get(p, m, t) a hit with the count just set; a Set for any
\* different provider, model or text, of any length, neither creates nor
\* changes what Get reports for (p, m, t); a Get changes nothing.  (With the
\* empty cache at start and the all-or-nothing eviction these give: Get hits
\* only after a Set of exactly its triple since the last eviction, and
\* returns the count of the most recent one.)
C18_KeyedByTriple ==
    /\ last.op = "SetCachedTokenCount" =>
          /\ GetCachedTokenCount(cache, last.provider, last.model, last.text)
             = [count |-> last.count, exists |-> TRUE]
          /\ \A t \in CacheTriples :
                t # <<last.provider, last.model, last.text>> =>
                   GetCachedTokenCount(cache, t[1], t[2], t[3])
                   = GetCachedTokenCount(last.before, t[1], t[2], t[3])
    /\ last.op = "GetCachedTokenCount" => cache = last.before

\* C19: CleanupCache(maxSize) leaves every entry as it was when the cache
\* holds at most maxSize entries and removes every entry when it holds more;
\* the cache is never partially evicted, and no Get or Set runs between the
\* moment CleanupCache takes the lock and the moment it releases it, so a
\* concurrent call sees the cache before the eviction or the cache after it.
C19_CleanupAllOrNothing ==
    /\ cleaner.pc \in {"body", "unlock"} => cacheMu.writer
    /\ cleaner.pc = "body" => cache = cleaner.before
    /\ cleaner.pc = "unlock" =>
          IF Cardinality(DOMAIN cleaner.before) <= cleaner.maxSize
          THEN cache = cleaner.before
          ELSE DOMAIN cache = {}
    /\ last.op \in {"GetCachedTokenCount", "SetCachedTokenCount"} =>
          last.during = "idle"

\* C19 witness: CleanupCache(1) has just emptied a cache of two entries
C19_Witness ==
    /\ cleaner.pc = "unlock"
    /\ cleaner.maxSize = 1
    /\ Cardinality(DOMAIN cleaner.before) = 2
    /\ DOMAIN cache = {}

----------------------------------------------------------------------------
(* SpecBuiltin: the registry holding the three built-in providers, as the   *)
(* integration test sets it up, resolved for every model any of them names  *)

\* Every model of a built-in allow-list, the empty model and two unknown ones
BuiltinModels ==
    UNION {p.supportedModels : p \in BuiltinProviders}
        \cup {"", "nonexistent-model", "gpt-5"}

NextBuiltin ==
    \/ \E p \in BuiltinProviders : DoRegister(p)
    \/ \E model \in BuiltinModels : DoGetForModel(model)
    \/ Return

SpecBuiltin == Init /\ [][NextBuiltin]_vars

\* The provider name the integration test expects for a model ("" for none)
ExpectedProvider(model) ==
    CASE model \in {"gpt-4", "gpt-3.5-turbo"} -> "openai"
      [] model \in {"claude-3-haiku", "claude-3-sonnet", "claude-3-opus"} -> "anthropic"
      [] model \in {"gemini-pro", "gemini-ultra"} -> "gemini"
      [] OTHER -> ""

\* C21: the allow-lists of the built-in providers are pairwise disjoint: no
\* model has two supporters, the empty and the unknown models have none, the
\* models of the integration test belong to the provider it expects, and
\* GetForModel returns the same result under every iteration order.
C21_DisjointAllowLists ==
    /\ \A model \in BuiltinModels :
          /\ Cardinality(Supporters(providers, model)) <= 1
          /\ model \in {"", "nonexistent-model", "gpt-5"} =>
                 Supporters(providers, model) = {}
          /\ (ExpectedProvider(model) # "" /\ Cardinality(DOMAIN providers) = 3) =>
                 Supporters(providers, model) = {ExpectedProvider(model)}
    /\ last.op = "GetForModel" =>
          \A order \in Orders(providers) :
              GetForModel(providers, order, last.model) = last.result

\* C21 witness: all three registered, gpt-4 resolved to openai although
\* openai was visited last
C21_Witness ==
    /\ last.op = "GetForModel"
    /\ DOMAIN providers = {"openai", "anthropic", "gemini"}
    /\ last.model = "gpt-4"
    /\ last.order[3] = "openai"
    /\ last.result.exists
    /\ Name(last.result.provider) = "openai"

----------------------------------------------------------------------------
(* SpecEstimate: CountTokens of the Claude and Gemini providers over every  *)
(* branch of the response multipliers, on short and empty inputs            *)

ApproxProviders == {ClaudeProvider, GeminiProvider}

\* A model for each branch of estimateResponseTokens and of
\* EstimateResponseTokens; CountTokens does not ask SupportsModel
EstimateModels ==
    {"", "claude-3-haiku", "claude-3-sonnet", "claude-3-opus", "gemini-pro",
     "gemini-ultra", "gpt-3.5-turbo", "custom"}

EstimateParams ==
    {TokenCountParams(model, text, messages, <<>>, NilToolChoice, crt) :
        model \in EstimateModels,
        text \in {NilText, StringPtr(""), StringPtr("Hi"),
                  StringPtr("This is a test.")},
        messages \in {<<>>, <<Message("user", StringContent(""))>>},
        crt \in BOOLEAN}

NextEstimate ==
    \/ \E p \in ApproxProviders, params \in EstimateParams : CountTokens(p, params)
    \/ Return

SpecEstimate == Init /\ [][NextEstimate]_vars

\* C22: for the Claude and Gemini providers, a non-empty model and a text or
\* a non-empty message list, CountTokens succeeds with ResponseTokens = 0
\* when CountResponseTokens is false and ResponseTokens > 0 when it is true.
C22_ResponseTokensSign ==
    (/\ last.op = "CountTokens"
     /\ last.provider \in ApproxProviders
     /\ last.params.Model # ""
     /\ last.params.Text.present \/ Len(last.params.Messages) > 0)
        => /\ last.err = NoErr
           /\ ~last.params.CountResponseTokens => last.tc.ResponseTokens = 0
           /\ last.params.CountResponseTokens => last.tc.ResponseTokens > 0

\* C22 witness: Gemini counts the empty text for gemini-pro, the smallest
\* input under the halving multiplier, with the response requested
C22_Witness ==
    /\ last.op = "CountTokens"
    /\ last.provider = GeminiProvider
    /\ last.params.Model = "gemini-pro"
    /\ last.params.Text = StringPtr("")
    /\ last.params.CountResponseTokens
    /\ last.tc.InputTokens = 3
    /\ last.tc.ResponseTokens = 1

----------------------------------------------------------------------------
(* CountTokens with a text present, compared across the other inputs        *)

\* The params of SpecCount that agree with params on Model, Text and
\* CountResponseTokens
SameText(params) ==
    {q \in CountParams : /\ q.Model = params.Model
                         /\ q.Text = params.Text
                         /\ q.CountResponseTokens = params.CountResponseTokens}

\* C23: when params.Text is present, the result of CountTokens (TokenCount and
\* error), taken from the same cache and with the same tokenizer, is the same
\* for every value of Messages, Tools and ToolChoice.
C23_TextAlone ==
    [][(last'.op = "CountTokens" /\ last'.params.Text.present) =>
          \A q \in SameText(last'.params) :
              LET r == ProviderCountTokens(last'.provider, q, cache, last'.encOK)
              IN  r.tc = last'.tc /\ r.err = last'.err]_vars

\* C23 witness: a text counted although messages, tools and a tool choice
\* were supplied with it
C23_Witness ==
    /\ last.op = "CountTokens"
    /\ last.provider = ClaudeProvider
    /\ last.err = NoErr
    /\ last.params.Text.present
    /\ Len(last.params.Messages) > 0
    /\ Len(last.params.Tools) > 0
    /\ last.params.ToolChoice.present
    /\ last.tc.InputTokens = (Len(last.params.Text.s) * 95) \div 400 + 5

----------------------------------------------------------------------------
(* TrackUsage step by step.  A goroutine inside TrackUsage touches shared   *)
(* state in separate critical sections: each GetForModel reads the registry *)
(* under its read lock, each approximateTokenCount reads the cache and, on  *)
(* a miss, writes it under a second acquisition of the cache lock, and      *)
(* CalculatePrice reads the pricing table.  tracking[t] is the goroutine's  *)
(* position (pc), its arguments, its locals and, once done, its result.     *)

\* The provider name under which approximateTokenCount caches
CacheName(kind) == IF kind = "claude" THEN "anthropic" ELSE "gemini"

\* The texts CountTokens of Claude and Gemini passes to
\* approximateTokenCount, in the order of the calls
ApproxTexts(params) ==
    IF params.Text.present THEN <<params.Text.s>>
    ELSE <<ExtractTextFromMessages(params.Messages)>>
         \o (IF Len(params.Tools) > 0 THEN <<ToolsJSON(params.Tools)>> ELSE <<>>)
         \o (IF params.ToolChoice.present
             THEN <<ToolChoiceJSON(params.ToolChoice)>> ELSE <<>>)

\* What countMessageTokens adds for the message structure
MessageOverhead(kind, params) ==
    IF params.Text.present THEN 0
    ELSE Len(params.Messages) * (IF kind = "claude" THEN 6 ELSE 4)

\* The params of the count in progress: callParams.Params for the input
\* count, and the copy with CountResponseTokens set for the estimate
PhaseParams(tr) ==
    IF tr.phase = "input" THEN tr.callParams.Params
    ELSE [tr.callParams.Params EXCEPT !.CountResponseTokens = TRUE]

\* TrackUsage returns: the goroutine holds the result
TrackDone(tr, metrics, err, panic) ==
    [tr EXCEPT !.pc = "done", !.metrics = metrics, !.err = err,
               !.panic = panic]

\* The count in progress returned inputTokens without error: the input
\* count goes on to step 2, the estimate's count to step 3
AfterCount(tr, inputTokens) ==
    IF tr.phase = "input"
    THEN IF tr.response.tag = "accessor"
         THEN [tr EXCEPT !.inputTokens = inputTokens,
                         !.outputTokens = tr.response.count, !.pc = "price"]
         ELSE [tr EXCEPT !.inputTokens = inputTokens, !.phase = "estimate",
                         !.pc = "resolve"]
    ELSE [tr EXCEPT !.pc = "price",
                    !.outputTokens =
                        IF tr.provider.kind = "claude"
                        THEN ClaudeEstimateResponseTokens(
                                 tr.callParams.Params.Model, inputTokens)
                        ELSE EstimateResponseTokens(
                                 tr.callParams.Params.Model, inputTokens)]

\* The count in progress failed: TrackUsage returns the error of the input
\* count, and goes on with outputTokens = 0 when the estimate fails
AfterCountError(tr, err) ==
    IF tr.phase = "input" THEN TrackDone(tr, ZeroUsageMetrics, err, FALSE)
    ELSE [tr EXCEPT !.pc = "price", !.outputTokens = 0]

\* provider.CountTokens begins on the provider just resolved: Claude and
\* Gemini validate and go to the cache; the other providers count at once
StartCount(tr, p, encOK) ==
    IF p.kind \in {"claude", "gemini"}
    THEN IF ~PhaseParams(tr).Text.present /\ Len(PhaseParams(tr).Messages) = 0
         THEN AfterCountError(tr,
                  NewError(ErrInvalidParams,
                           "either text or messages must be provided", NoErr))
         ELSE [tr EXCEPT !.provider = p, !.pending = ApproxTexts(PhaseParams(tr)),
                         !.sum = 0, !.pc = "get"]
    ELSE Only({IF r.err # NoErr THEN AfterCountError(tr, r.err)
               ELSE IF tr.phase = "input" THEN AfterCount(tr, r.tc.InputTokens)
               ELSE [tr EXCEPT !.pc = "price",
                               !.outputTokens = r.tc.ResponseTokens] :
               r \in {ProviderCountTokens(p, PhaseParams(tr), <<>>, encOK)}})

\* One approximateTokenCount returned count: the next text, or the count is
\* complete
Counted(tr, count) ==
    IF Len(tr.pending) > 1
    THEN [tr EXCEPT !.pending = Tail(tr.pending), !.sum = @ + count,
                    !.pc = "get"]
    ELSE AfterCount([tr EXCEPT !.pending = <<>>],
                    tr.sum + count
                    + MessageOverhead(tr.provider.kind, PhaseParams(tr)))

\* The goroutines that are inside TrackUsage
InTrackUsage == {t \in Trackers : tracking[t].pc \notin {"start", "done"}}

\* go tracker.TrackUsage(callParams, response)
BeginTrackUsage(t, callParams, response) ==
    /\ tracking[t].pc = "start"
    /\ tracking' = [tracking EXCEPT ![t] =
           [pc |-> "resolve", phase |-> "input", callParams |-> callParams,
            response |-> response, startCache |-> cache,
            startProviders |-> providers, provider |-> NilProvider,
            pending |-> <<>>, sum |-> 0, inputTokens |-> 0,
            outputTokens |-> 0, price |-> ZeroPrice,
            metrics |-> ZeroUsageMetrics, err |-> NoErr, panic |-> FALSE]]
    /\ UNCHANGED <<sched, providers, config, cache, mu, registrar, reader, updater,
                   cacheMu, cleaner, auto, last>>

\* Steps 1 and 2: t.CountTokens validates the model and asks the registry, or
\* step 2 asks the registry for callParams.Model; the provider found starts
\* counting
TrackResolve(t) ==
    /\ tracking[t].pc = "resolve"
    /\ CanRLock(mu)
    /\ LET tr == tracking[t]
           model == IF tr.phase = "input" THEN tr.callParams.Params.Model
                    ELSE tr.callParams.Model
       IN  IF tr.phase = "input" /\ model = ""
           THEN tracking' = [tracking EXCEPT ![t] =
                    TrackDone(tr, ZeroUsageMetrics,
                              NewError(ErrInvalidParams, "model is required",
                                       NoErr), FALSE)]
           ELSE \E order \in ResolveOrders(providers, model), encOK \in BOOLEAN :
                  \E found \in {GetForModel(providers, order, model)} :
                    tracking' = [tracking EXCEPT ![t] =
                        IF found.exists THEN StartCount(tr, found.provider, encOK)
                        ELSE IF tr.phase = "input"
                        THEN TrackDone(tr, ZeroUsageMetrics,
                                 NewError(ErrProviderNotFound,
                                          "no provider found for model: "
                                          \o model, NoErr), FALSE)
                        ELSE [tr EXCEPT !.pc = "price", !.outputTokens = 0]]
    /\ UNCHANGED <<sched, providers, config, cache, mu, registrar, reader, updater,
                   cacheMu, cleaner, auto, last>>

\* approximateTokenCount: GetCachedTokenCount; a hit is the count
TrackCacheGet(t) ==
    /\ tracking[t].pc = "get"
    /\ CanRLock(cacheMu)
    /\ LET tr == tracking[t]
           hit == GetCachedTokenCount(cache, CacheName(tr.provider.kind), "",
                                      Head(tr.pending))
       IN  tracking' = [tracking EXCEPT ![t] =
               IF hit.exists THEN Counted(tr, hit.count)
               ELSE [tr EXCEPT !.pc = "set"]]
    /\ UNCHANGED <<sched, providers, config, cache, mu, registrar, reader, updater,
                   cacheMu, cleaner, auto, last>>

\* approximateTokenCount after a miss: the count is computed and stored by
\* SetCachedTokenCount
TrackCacheSet(t) ==
    /\ tracking[t].pc = "set"
    /\ CanLock(cacheMu)
    /\ LET tr == tracking[t]
           text == Head(tr.pending)
           count == ApproximateTokenCount(tr.provider.kind, <<>>, text).count
       IN  /\ cache' = SetCachedTokenCount(cache, CacheName(tr.provider.kind),
                                           "", text, count)
           /\ tracking' = [tracking EXCEPT ![t] = Counted(tr, count)]
    /\ UNCHANGED <<sched, providers, config, mu, registrar, reader, updater, cacheMu,
                   cleaner, auto, last>>

\* Step 3: t.CalculatePrice validates the model and asks the registry; the
\* provider found prices the call from the pricing table
TrackPrice(t) ==
    /\ tracking[t].pc = "price"
    /\ CanRLock(mu)
    /\ LET tr == tracking[t]
       IN  \E order \in ResolveOrders(providers, tr.callParams.Model) :
             \E r \in {TrackerCalculatePrice(providers, order, config,
                                              tr.callParams.Model,
                                              tr.inputTokens, tr.outputTokens)} :
               tracking' = [tracking EXCEPT ![t] =
                   IF r.err # NoErr
                   THEN TrackDone(tr, ZeroUsageMetrics, r.err, FALSE)
                   ELSE [tr EXCEPT !.price = r.price, !.pc = "name"]]
    /\ UNCHANGED <<sched, providers, config, cache, mu, registrar, reader, updater,
                   cacheMu, cleaner, auto, last>>

\* Steps 4 to 6: the registry is asked again for the provider's name and the
\* metrics are returned
TrackName(t) ==
    /\ tracking[t].pc = "name"
    /\ CanRLock(mu)
    /\ LET tr == tracking[t]
       IN  \E order \in ResolveOrders(providers, tr.callParams.Model),
              now \in tr.callParams.StartTime
                      ..(tr.callParams.StartTime + MaxElapsed) :
             \E made \in {TrackUsageMetrics(providers, tr.callParams,
                              [orders |-> <<order, order, order, order>>,
                               now |-> now],
                              tr.inputTokens, tr.outputTokens, tr.price)} :
               tracking' = [tracking EXCEPT ![t] =
                   TrackDone(tr, made.metrics, NoErr, made.panic)]
    /\ UNCHANGED <<sched, providers, config, cache, mu, registrar, reader, updater,
                   cacheMu, cleaner, auto, last>>

----------------------------------------------------------------------------
(* SpecTrack: two goroutines call TrackUsage for different models of the    *)
(* Claude and Gemini providers, which were registered before the calls      *)

\* Two texts of 104 bytes with the same first and last fifty bytes: the
\* middle of the first is four ASCII bytes, the middle of the second two
\* ASCII bytes and one two-byte rune
LongASCII == LongText("abcd")
LongAccented == LongText("abe~")

TrackTexts == {"Hi", LongASCII, LongAccented}

TrackModels == {"gemini-pro", "gemini-ultra", "claude-3-opus"}

TrackCallParams ==
    {CallParams(model,
                TokenCountParams(model, StringPtr(text), <<>>, <<>>,
                                 NilToolChoice, FALSE), 1) :
        model \in TrackModels, text \in TrackTexts}

\* The models of the calls already made
ModelsTracked ==
    {tracking[t].callParams.Model : t \in {u \in Trackers : tracking[u].pc # "start"}}

NextTrack ==
    \/ \E p \in {ClaudeProvider, GeminiProvider} :
          /\ \A t \in Trackers : tracking[t].pc = "start"
          /\ RegisterProvider(p)
    \/ Return
    \/ \E t \in Trackers, callParams \in TrackCallParams,
          response \in {NilResponse, AccessorResponse(7)} :
          /\ callParams.Model \notin ModelsTracked
          /\ BeginTrackUsage(t, callParams, response)
    \/ \E t \in Trackers :
          \/ TrackResolve(t)
          \/ TrackCacheGet(t)
          \/ TrackCacheSet(t)
          \/ TrackPrice(t)
          \/ TrackName(t)

SpecTrack == Init /\ [][NextTrack]_vars

\* What the call of goroutine t returns when it runs alone from the
\* registry, the pricing table and the cache it started from
RunAlone(tr) ==
    LET order == CHOOSE o \in ResolveOrders(tr.startProviders,
                                           tr.callParams.Model) : TRUE
    IN  TrackUsage(tr.startProviders, config, tr.startCache, tr.callParams,
                   tr.response,
                   [orders |-> <<order, order, order, order>>,
                    encOK |-> <<TRUE, TRUE>>, now |-> tr.callParams.StartTime])

\* C24: a TrackUsage call that ran beside a call for another model returns
\* the token counts, the price, the provider name and the error it returns
\* when run alone from the state it started in.
C24_Independent ==
    \A t \in Trackers :
        tracking[t].pc = "done" =>
            LET tr == tracking[t]
                alone == RunAlone(tr)
            IN  /\ tr.err = alone.err
                /\ tr.metrics.TokenCount = alone.metrics.TokenCount
                /\ tr.metrics.Price = alone.metrics.Price
                /\ tr.metrics.Provider = alone.metrics.Provider

----------------------------------------------------------------------------
(* SpecAuto: automatic pricing updates.  One caller calls                   *)
(* EnableAutomaticPricingUpdates and DisableAutomaticPricingUpdates one     *)
(* after the other; both hold c.mu for the whole call.  The runtime runs    *)
(* the function given to time.AfterFunc in a goroutine of its own when the  *)
(* timer expires; that function reads c.pricingUpdateTimer without c.mu     *)
(* and calls Reset on what it read.                                         *)

\* The calls to EnableAutomaticPricingUpdates and the timer expirations a
\* run may contain
MaxEnables == 2
MaxFirings == 2

\* t.Stop(): an armed timer will not fire; a timer that has fired is left
StopTimer(timers, t) == [timers EXCEPT ![t] = "idle"]

\* t.Reset(interval): the timer will fire (again)
ResetTimer(timers, t) == [timers EXCEPT ![t] = "armed"]

\* EnableAutomaticPricingUpdates up to time.AfterFunc: the flag is set, the
\* timer in the field is stopped and a new timer is created
EnableCreate ==
    /\ auto.caller = "idle"
    /\ Len(auto.timers) < MaxEnables
    /\ auto' = [auto EXCEPT
           !.enabled = TRUE,
           !.timers = Append(IF auto.timer # 0
                             THEN StopTimer(auto.timers, auto.timer)
                             ELSE auto.timers, "armed"),
           !.created = Len(auto.timers) + 1,
           !.caller = "enable"]
    /\ UNCHANGED <<sched, providers, config, cache, mu, registrar, reader, updater,
                   cacheMu, cleaner, tracking, last>>

\* EnableAutomaticPricingUpdates: the new timer is stored in the field and
\* the call returns
EnableAssign ==
    /\ auto.caller = "enable"
    /\ auto' = [auto EXCEPT !.timer = auto.created, !.caller = "idle",
                            !.returned = "enable"]
    /\ UNCHANGED <<sched, providers, config, cache, mu, registrar, reader, updater,
                   cacheMu, cleaner, tracking, last>>

\* DisableAutomaticPricingUpdates up to Stop: the flag is cleared and the
\* timer in the field, if any, is stopped
DisableStop ==
    /\ auto.caller = "idle"
    /\ auto' = [auto EXCEPT
           !.enabled = FALSE,
           !.timers = IF auto.timer # 0 THEN StopTimer(auto.timers, auto.timer)
                      ELSE auto.timers,
           !.caller = "disable"]
    /\ UNCHANGED <<sched, providers, config, cache, mu, registrar, reader, updater,
                   cacheMu, cleaner, tracking, last>>

\* DisableAutomaticPricingUpdates: the field is set to nil and the call
\* returns
DisableClear ==
    /\ auto.caller = "disable"
    /\ auto' = [auto EXCEPT !.timer = 0, !.caller = "idle",
                            !.returned = "disable"]
    /\ UNCHANGED <<sched, providers, config, cache, mu, registrar, reader, updater,
                   cacheMu, cleaner, tracking, last>>

\* An armed timer expires: the runtime starts a goroutine for its function
TimerFires(t) ==
    /\ auto.timers[t] = "armed"
    /\ Len(auto.callbacks) < MaxFirings
    /\ auto' = [auto EXCEPT
           !.timers = [auto.timers EXCEPT ![t] = "idle"],
           !.callbacks = Append(auto.callbacks, [pc |-> "read", timer |-> 0])]
    /\ UNCHANGED <<sched, providers, config, cache, mu, registrar, reader, updater,
                   cacheMu, cleaner, tracking, last>>

\* The timer function loads c.pricingUpdateTimer; calling Reset on the nil
\* pointer is a nil dereference
CallbackRead(k) ==
    /\ auto.callbacks[k].pc = "read"
    /\ auto' = [auto EXCEPT !.callbacks[k] =
           IF auto.timer = 0 THEN [pc |-> "panic", timer |-> 0]
           ELSE [pc |-> "reset", timer |-> auto.timer]]
    /\ UNCHANGED <<sched, providers, config, cache, mu, registrar, reader, updater,
                   cacheMu, cleaner, tracking, last>>

\* The timer function calls Reset(interval) on the timer it loaded
CallbackReset(k) ==
    /\ auto.callbacks[k].pc = "reset"
    /\ auto' = [auto EXCEPT
           !.timers = ResetTimer(auto.timers, auto.callbacks[k].timer),
           !.callbacks[k].pc = "done",
           !.rearmedAfterDisable =
               @ \/ (auto.caller = "idle" /\ auto.returned = "disable")]
    /\ UNCHANGED <<sched, providers, config, cache, mu, registrar, reader, updater,
                   cacheMu, cleaner, tracking, last>>

NextAuto ==
    \/ EnableCreate
    \/ EnableAssign
    \/ DisableStop
    \/ DisableClear
    \/ \E t \in DOMAIN auto.timers : TimerFires(t)
    \/ \E k \in DOMAIN auto.callbacks : CallbackRead(k) \/ CallbackReset(k)

SpecAuto == Init /\ [][NextAuto]_vars

ArmedTimers == {t \in DOMAIN auto.timers : auto.timers[t] = "armed"}

\* C25: between the calls AutoUpdatePricing is true exactly when the field
\* holds a timer, and while it is false no timer is armed; at most one timer
\* is armed; no timer function re-arms a timer after
\* DisableAutomaticPricingUpdates has returned, and none calls Reset on the
\* nil field.
C25_AutoUpdateTimer ==
    /\ auto.caller = "idle" => (auto.enabled <=> auto.timer # 0)
    /\ (auto.caller = "idle" /\ ~auto.enabled) => ArmedTimers = {}
    /\ Cardinality(ArmedTimers) <= 1
    /\ ~auto.rearmedAfterDisable
    /\ \A k \in DOMAIN auto.callbacks : auto.callbacks[k].pc # "panic"

----------------------------------------------------------------------------
(* SpecReRegister: goroutines inside TrackUsage while the caller registers  *)
(* two providers of the same name with different allow-lists (test doubles, *)
(* which count and price without the cache and the pricing table)           *)

ReRegisterProviders ==
    {MockProvider("mock", "model-a", TokenCount(100, 50, 150),
                  Price(100000, 200000, 300000, "USD")),
     MockProvider("mock", "model-b", TokenCount(10, 20, 30),
                  Price(1000, 2000, 3000, "USD"))}

ReRegisterCallParams ==
    {CallParams(model,
                TokenCountParams(model, StringPtr("Hi"), <<>>, <<>>,
                                 NilToolChoice, FALSE), 1) :
        model \in {"model-a", "model-b"}}

NextReRegister ==
    \/ \E p \in ReRegisterProviders : RegisterProvider(p)
    \/ Return
    \/ \E t \in Trackers, callParams \in ReRegisterCallParams,
          response \in {NilResponse, AccessorResponse(7)} :
          BeginTrackUsage(t, callParams, response)
    \/ \E t \in Trackers : TrackResolve(t) \/ TrackPrice(t) \/ TrackName(t)

SpecReRegister == Init /\ [][NextReRegister]_vars

\* C26: once steps 1 and 3 of TrackUsage have succeeded, a registered
\* provider supports callParams.Model, and the call ends without calling
\* Name on a missing provider.
C26_SecondResolutionFinds ==
    \A t \in Trackers :
        /\ tracking[t].pc = "name" =>
               Supporters(providers, tracking[t].callParams.Model) # {}
        /\ tracking[t].pc = "done" => ~tracking[t].panic

----------------------------------------------------------------------------
(* The providers behind the UsageMetrics of a TrackUsage call               *)

\* The calls of the TrackUsage recorded in last that counted the input
\* tokens (CountTokens without the response estimate) and that priced it
InputCountCalls ==
    {last.calls[i] : i \in {j \in DOMAIN last.calls :
                               /\ last.calls[j].fn = "CountTokens"
                               /\ ~last.calls[j].crt}}

PriceCalls ==
    {last.calls[i] : i \in {j \in DOMAIN last.calls :
                               last.calls[j].fn = "CalculatePrice"}}

\* A TrackUsage call has returned metrics
TrackUsageSucceeded ==
    last.op = "TrackUsage" /\ last.err = NoErr /\ ~last.panic

\* C27 as stated: the provider named in the metrics, the provider that priced
\* the call and the provider that counted the input tokens are the same, and
\* Model is the model that was counted.
C27_OneProvider ==
    TrackUsageSucceeded =>
        /\ \A c \in InputCountCalls :
              /\ c.provider = last.metrics.Provider
              /\ c.model = last.metrics.Model
        /\ \A c \in PriceCalls : c.provider = last.metrics.Provider

\* C27 amended: the input tokens are counted for callParams.Params.Model by
\* a registered provider that supports it; the call is priced for
\* callParams.Model by a registered provider that supports it; Model is
\* callParams.Model and Provider names a registered provider that supports
\* it.  When the two models are equal and one registered provider supports
\* them, that provider counted, priced and is named.
C27_ProvidersPerModel ==
    TrackUsageSucceeded =>
        /\ Cardinality(InputCountCalls) = 1
        /\ Cardinality(PriceCalls) = 1
        /\ \A c \in InputCountCalls :
              /\ c.model = last.callParams.Params.Model
              /\ c.provider \in Supporters(providers, last.callParams.Params.Model)
        /\ \A c \in PriceCalls :
              /\ c.model = last.callParams.Model
              /\ c.provider \in Supporters(providers, last.callParams.Model)
        /\ last.metrics.Model = last.callParams.Model
        /\ last.metrics.Provider \in Supporters(providers, last.callParams.Model)
        /\ (/\ last.callParams.Model = last.callParams.Params.Model
            /\ Cardinality(Supporters(providers, last.callParams.Model)) = 1)
              => /\ \A c \in InputCountCalls \cup PriceCalls :
                       c.provider = last.metrics.Provider
                 /\ \A c \in InputCountCalls : c.model = last.metrics.Model

\* C27 witness: a call whose Params.Model is a Claude model and whose Model is
\* an OpenAI model: counted by anthropic, priced by and attributed to openai
C27_Witness ==
    /\ TrackUsageSucceeded
    /\ last.callParams.Model = "gpt-4"
    /\ last.callParams.Params.Model = "claude-3-opus"
    /\ \E c \in InputCountCalls : c.provider = "anthropic"
    /\ \E c \in PriceCalls : c.provider = "openai"
    /\ last.metrics.Provider = "openai"
    /\ last.metrics.Model = "gpt-4"

----------------------------------------------------------------------------
(* SpecTransparent: CountTokens of the Claude and Gemini providers called   *)
(* one after the other on short and long inputs, the cache filling up       *)

TransparentParams ==
    {TokenCountParams(model, text, messages, <<>>, NilToolChoice, FALSE) :
        model \in {"claude-3-opus", "gemini-pro"},
        text \in {NilText, StringPtr("Hi"), StringPtr(LongASCII),
                  StringPtr(LongAccented)},
        messages \in {<<>>, <<Message("user", StringContent("Hi"))>>}}

NextTransparent ==
    \/ \E p \in ApproxProviders, params \in TransparentParams :
          CountTokens(p, params)
    \/ Return

SpecTransparent == Init /\ [][NextTransparent]_vars

\* C28: whatever was counted before, CountTokens of the Claude and Gemini
\* providers returns the InputTokens it returns for the same params on an
\* empty cache.
C28_CacheTransparent ==
    (last.op = "CountTokens" /\ last.err = NoErr) =>
        last.tc.InputTokens
        = ProviderCountTokens(last.provider, last.params, <<>>,
                              last.encOK).tc.InputTokens

----------------------------------------------------------------------------
(* SpecDefaults: the built-in providers registered with the default        *)
(* pricing table, their UpdatePricing, and tracker.CalculatePrice for every *)
(* model they support                                                       *)

SupportedModels == UNION {p.supportedModels : p \in BuiltinProviders}

NextDefaults ==
    \/ \E p \in BuiltinProviders : RegisterProvider(p)
    \/ \E p \in BuiltinProviders : UpdatePricing(p)
    \/ \E model \in SupportedModels : CallCalculatePrice(model, 1000, 500)
    \/ Return

SpecDefaults == Init /\ [][NextDefaults]_vars

\* The models of provider p that have a pricing entry
PricedModels(p) ==
    {model \in p.supportedModels : GetModelPricing(config, Name(p), model).exists}

\* C29 as stated: every model a built-in provider supports has a pricing
\* entry, before and after UpdatePricing, and tracker.CalculatePrice on a
\* model the registry resolves does not fail with PricingNotFound.
C29_EverySupportedModelPriced ==
    /\ \A p \in BuiltinProviders : PricedModels(p) = p.supportedModels
    /\ (last.op = "TrackerCalculatePrice"
        /\ Supporters(providers, last.model) # {})
          => last.err.Type # ErrPricingNotFound

\* The OpenAI models without a pricing entry in NewConfig and in UpdatePricing
UnpricedModels ==
    {"gpt-3.5-turbo-16k", "gpt-4-32k", "gpt-4o", "text-embedding-ada"}

\* C29 amended: every Claude and Gemini model, gpt-3.5-turbo and gpt-4 have a
\* pricing entry before and after UpdatePricing; gpt-4-turbo has one once
\* OpenAIProvider.UpdatePricing has run; the other four OpenAI models never
\* have one.  tracker.CalculatePrice on a resolved model fails with
\* PricingNotFound exactly for the models without an entry.
C29_PricedModels ==
    /\ PricedModels(ClaudeProvider) = ClaudeProvider.supportedModels
    /\ PricedModels(GeminiProvider) = GeminiProvider.supportedModels
    /\ {"gpt-3.5-turbo", "gpt-4"} \subseteq PricedModels(OpenAIProvider)
    /\ PricedModels(OpenAIProvider) \cap UnpricedModels = {}
    /\ (last.op = "UpdatePricing" /\ last.provider = OpenAIProvider)
          => "gpt-4-turbo" \in PricedModels(OpenAIProvider)
    /\ (last.op = "TrackerCalculatePrice"
        /\ Supporters(providers, last.model) # {})
          => (last.err.Type = ErrPricingNotFound
              <=> \A n \in Supporters(providers, last.model) :
                     last.model \notin PricedModels(providers[n]))

\* C29 witness: after OpenAIProvider.UpdatePricing, tracker.CalculatePrice for
\* the supported model gpt-4o fails with PricingNotFound
C29_Witness ==
    /\ last.op = "TrackerCalculatePrice"
    /\ last.model = "gpt-4o"
    /\ "openai" \in DOMAIN providers
    /\ "gpt-4-turbo" \in PricedModels(OpenAIProvider)
    /\ last.err.Type = ErrPricingNotFound

----------------------------------------------------------------------------
(* SpecLocks: the locks.  Every operation is followed through the locks it  *)
(* takes and releases, in the order of its code: the registry lock          *)
(* (ProviderRegistry.mu), the provider lock (ClaudeProvider.mu), the        *)
(* configuration lock (Config.mu) and the cache lock (globalTokenCache.mu). *)
(* What an operation does between two lock operations is left out; which    *)
(* provider the registry returns and whether the cache has the text are     *)
(* chosen freely when the operation starts.  sched.workers[w] holds the     *)
(* lock operations goroutine w has still to do, the locks it holds, and     *)
(* whether it waits inside Lock or RLock: sync.RWMutex lets no new reader   *)
(* in while a writer waits, and Unlock lets in the readers that wait.       *)

Acquire(lock) == <<[act |-> "lock", lock |-> lock]>>
Release(lock) == <<[act |-> "unlock", lock |-> lock]>>
AcquireRead(lock) == <<[act |-> "rlock", lock |-> lock]>>
ReleaseRead(lock) == <<[act |-> "runlock", lock |-> lock]>>

\* ProviderRegistry.Get, GetForModel, All: RLock, deferred RUnlock
RegistryReadScript == AcquireRead("registry") \o ReleaseRead("registry")

\* ProviderRegistry.Register: Lock, deferred Unlock
RegisterScript == Acquire("registry") \o Release("registry")

\* approximateTokenCount: GetCachedTokenCount and, on a miss,
\* SetCachedTokenCount
ApproximateScript(miss) ==
    AcquireRead("cache") \o ReleaseRead("cache")
    \o (IF miss THEN Acquire("cache") \o Release("cache") ELSE <<>>)

\* tracker.CountTokens: GetForModel, then CountTokens of the provider found
\* (kind "none": no provider); only Claude and Gemini use the cache
CountScript(kind, miss) ==
    RegistryReadScript
    \o (IF kind \in {"claude", "gemini"} THEN ApproximateScript(miss) ELSE <<>>)

\* Config.GetModelPricing: RLock, deferred RUnlock
GetPricingScript == AcquireRead("config") \o ReleaseRead("config")

\* Config.SetModelPricing: Lock, deferred Unlock
SetPricingScript == Acquire("config") \o Release("config")

\* Mutant of PriceScript: the provider lock is taken while the configuration
\* lock is held
PriceScriptLockingProvider(kind) ==
    RegistryReadScript
    \o (IF kind = "none" THEN <<>>
        ELSE AcquireRead("config") \o AcquireRead("provider")
             \o ReleaseRead("provider") \o ReleaseRead("config"))

\* tracker.CalculatePrice: GetForModel, then CalculatePrice of the provider
\* found, which calls GetModelPricing
PriceScript(kind) ==
    RegistryReadScript \o (IF kind = "none" THEN <<>> ELSE GetPricingScript)

\* tracker.TrackUsage: CountTokens, the estimate (the text is cached by
\* then), CalculatePrice and the last GetForModel
TrackUsageScript(kind, miss) ==
    CountScript(kind, miss) \o CountScript(kind, FALSE) \o PriceScript(kind)
    \o RegistryReadScript

\* Provider.UpdatePricing: Claude holds its lock around three
\* SetModelPricing calls; OpenAI makes three and Gemini two without a lock
UpdatePricingScript(kind) ==
    CASE kind = "claude" ->
             Acquire("provider") \o SetPricingScript \o SetPricingScript
             \o SetPricingScript \o Release("provider")
      [] kind = "openai" ->
             SetPricingScript \o SetPricingScript \o SetPricingScript
      [] OTHER -> SetPricingScript \o SetPricingScript

RECURSIVE UpdateEachScript(_)
\* The loop of UpdateAllPricing over the providers All returned
UpdateEachScript(kinds) ==
    IF kinds = <<>> THEN <<>>
    ELSE UpdatePricingScript(Head(kinds)) \o UpdateEachScript(Tail(kinds))

\* tracker.UpdateAllPricing: All, then UpdatePricing of each provider
UpdateAllPricingScript(kinds) == RegistryReadScript \o UpdateEachScript(kinds)

\* tracker.RegisterSDKClient: Get, then SetSDKClient, which takes the
\* provider lock in ClaudeProvider only; UpdateProviderPricing of the SDK
\* wrappers takes no lock
RegisterSDKClientScript(kind) ==
    RegistryReadScript
    \o (IF kind = "claude" THEN Acquire("provider") \o Release("provider")
        ELSE <<>>)

\* CleanupCache: Lock, deferred Unlock
CleanupCacheScript == Acquire("cache") \o Release("cache")

\* The providers a resolution may return, and no provider
ProviderKinds == {"openai", "claude", "gemini", "none"}

\* What registry.All may return to UpdateAllPricing
ProviderLists ==
    {<<>>, <<"claude">>, <<"gemini", "claude">>, <<"claude", "openai">>}

\* The operations a goroutine may start, each with the lock operations of
\* one of its runs
Operations ==
    {[op |-> "RegisterProvider", script |-> RegisterScript],
     [op |-> "SetModelPricing", script |-> SetPricingScript],
     [op |-> "CleanupCache", script |-> CleanupCacheScript]}
    \cup {[op |-> "CountTokens", script |-> CountScript(kind, miss)] :
             kind \in ProviderKinds, miss \in BOOLEAN}
    \cup {[op |-> "CalculatePrice", script |-> PriceScript(kind)] :
             kind \in ProviderKinds}
    \cup {[op |-> "TrackUsage", script |-> TrackUsageScript(kind, miss)] :
             kind \in {"openai", "claude"}, miss \in BOOLEAN}
    \cup {[op |-> "UpdateAllPricing", script |-> UpdateAllPricingScript(kinds)] :
             kinds \in ProviderLists}
    \cup {[op |-> "RegisterSDKClient", script |-> RegisterSDKClientScript(kind)] :
             kind \in ProviderKinds \ {"none"}}

\* The lock a name stands for
LockNamed(lock) ==
    CASE lock = "registry" -> mu
      [] lock = "cache" -> cacheMu
      [] lock = "config" -> sched.configMu
      [] OTHER -> sched.providerMu

\* The lock after a lock operation
AfterLockOp(m, act) ==
    CASE act = "lock" -> Lock(m)
      [] act = "unlock" -> Unlock(m)
      [] act = "rlock" -> RLock(m)
      [] OTHER -> RUnlock(m)

\* The goroutines that wait inside the lock operation act of the lock
Waiting(act, lock) ==
    {w \in Workers : /\ sched.workers[w].waiting
                     /\ Head(sched.workers[w].script).act = act
                     /\ Head(sched.workers[w].script).lock = lock}

\* A goroutine waits inside Lock of the lock
WriterWaits(lock) == Waiting("lock", lock) # {}

\* The lock operation does not have to wait: Lock needs the lock free, RLock
\* needs no writer holding it and none waiting for it
CanDo(step) ==
    CASE step.act = "lock" -> CanLock(LockNamed(step.lock))
      [] step.act = "rlock" ->
             CanRLock(LockNamed(step.lock)) /\ ~WriterWaits(step.lock)
      [] OTHER -> TRUE

\* The locks a goroutine holds after a lock operation, in the order taken
HeldAfter(held, step) ==
    IF step.act \in {"lock", "rlock"} THEN Append(held, step.lock)
    ELSE SubSeq(held, 1, Len(held) - 1)

\* Goroutine w is inside an operation
Busy(w) == sched.workers[w].script # <<>>

\* Goroutine w can do its next lock operation
CanStep(w) == Busy(w) /\ CanDo(Head(sched.workers[w].script))

\* Goroutine w starts an operation
BeginOperation(w, operation) ==
    /\ ~Busy(w)
    /\ sched' = [sched EXCEPT !.workers[w] =
           [op |-> operation.op, script |-> operation.script, held |-> <<>>,
            waiting |-> FALSE]]
    /\ UNCHANGED <<providers, config, cache, mu, registrar, reader, updater,
                   cacheMu, cleaner, tracking, auto, last>>

\* The goroutine after its next lock operation; after the last one the
\* operation has returned
Advanced(worker) ==
    IF Len(worker.script) = 1 THEN NoWork
    ELSE [worker EXCEPT !.script = Tail(worker.script),
                        !.held = HeldAfter(worker.held, Head(worker.script)),
                        !.waiting = FALSE]

\* Goroutine w does its next lock operation.  Unlock also lets in the
\* readers that wait inside RLock of the lock.
LockStep(w) ==
    /\ CanStep(w)
    /\ LET step == Head(sched.workers[w].script)
           woken == IF step.act = "unlock" THEN Waiting("rlock", step.lock)
                    ELSE {}
           done == AfterLockOp(LockNamed(step.lock), step.act)
           after == [done EXCEPT !.readers = @ + Cardinality(woken)]
       IN  /\ mu' = IF step.lock = "registry" THEN after ELSE mu
           /\ cacheMu' = IF step.lock = "cache" THEN after ELSE cacheMu
           /\ sched' = [sched EXCEPT
                  !.configMu = IF step.lock = "config" THEN after ELSE @,
                  !.providerMu = IF step.lock = "provider" THEN after ELSE @,
                  !.workers = [v \in Workers |->
                                  IF v = w \/ v \in woken
                                  THEN Advanced(sched.workers[v])
                                  ELSE sched.workers[v]]]
    /\ UNCHANGED <<providers, config, cache, registrar, reader, updater,
                   cleaner, tracking, auto, last>>

\* Goroutine w has called Lock or RLock and cannot have the lock: it waits
WaitInLock(w) ==
    /\ Busy(w)
    /\ ~CanStep(w)
    /\ ~sched.workers[w].waiting
    /\ sched' = [sched EXCEPT !.workers[w].waiting = TRUE]
    /\ UNCHANGED <<providers, config, cache, mu, registrar, reader, updater,
                   cacheMu, cleaner, tracking, auto, last>>

NextLocks ==
    \/ \E w \in Workers, operation \in Operations : BeginOperation(w, operation)
    \/ \E w \in Workers : LockStep(w)
    \/ \E w \in Workers : WaitInLock(w)

SpecLocks == Init /\ [][NextLocks]_vars

\* The scheduler runs every runnable goroutine, so a goroutine that calls
\* Lock gets the lock or comes to wait for it; a goroutine that waits for a
\* lock gets it once it is free often enough (sync.RWMutex hands the lock to
\* waiting goroutines)
SpecLocksFair ==
    /\ SpecLocks
    /\ \A w \in Workers : /\ SF_vars(LockStep(w))
                          /\ WF_vars(LockStep(w) \/ WaitInLock(w))

\* The position of a lock in the order registry, provider, config or cache
LockRank(lock) ==
    CASE lock = "registry" -> 1
      [] lock = "provider" -> 2
      [] OTHER -> 3

\* The locks of a goroutine were taken in ascending order
InLockOrder(held) ==
    \A i, j \in DOMAIN held : i < j => LockRank(held[i]) < LockRank(held[j])

\* Some goroutine is inside an operation and none can go on
Deadlocked == (\E w \in Workers : Busy(w)) /\ ~(\E w \in Workers : CanStep(w))

\* C30: every goroutine takes its locks in the order registry, provider,
\* config or cache; UpdateAllPricing does not hold the registry lock while a
\* provider updates; the goroutines never all wait for each other; and every
\* operation that has started returns.
C30_NoDeadlock ==
    /\ [](\A w \in Workers :
             /\ InLockOrder(sched.workers[w].held)
             /\ (sched.workers[w].op = "UpdateAllPricing"
                 /\ Len(sched.workers[w].held) > 0
                 /\ sched.workers[w].held[1] = "registry")
                    => Len(sched.workers[w].held) = 1)
    /\ []~Deadlocked
    /\ \A w \in Workers : Busy(w) ~> ~Busy(w)

\* C30 witness: a goroutine inside ClaudeProvider.UpdatePricing holds the
\* provider lock and the configuration lock while the other waits for the
\* configuration lock
C30_Witness ==
    /\ sched.workers[1].op = "UpdateAllPricing"
    /\ sched.workers[1].held = <<"provider", "config">>
    /\ Busy(2)
    /\ ~CanStep(2)
    /\ Head(sched.workers[2].script).lock = "config"

====
